---- MODULE Spec2Model ----
(***************************************************************************)
(* Model of plot_your_path: the capture pipeline (routers/jobs.py and      *)
(* capture.py) over the relational store (models/*.py), the skill linker   *)
(* (services/skill_extractor.py) and the fetch strategy                    *)
(* (services/scraper.py).                                                  *)
(*                                                                         *)
(* Text is modelled as a sequence of one-character strings, so that case   *)
(* folding, trimming, slug derivation and SQL LIKE matching are computed   *)
(* character by character.                                                 *)
(***************************************************************************)
EXTENDS Integers, Sequences, FiniteSets, TLC

(***************************************************************************)
(* Bounds of the model.                                                    *)
(***************************************************************************)
\* number of capture invocations (HTTP requests or CLI runs) in one behaviour
NumCaptures == 2
\* the clock int(time.time()) ranges over 0..MaxTime
MaxTime == 1
\* retry_attempts of the scraping configuration ranges over 0..MaxRetry
MaxRetry == 2
\* number of status updates in one behaviour
MaxStatusUpdates == 1
\* number of calls of the skill service on one session
MaxCalls == 3

(***************************************************************************)
(* Text helpers.                                                           *)
(***************************************************************************)
UpperCase == <<"A","B","C","D","E","F","G","H","I","J","K","L","M",
               "N","O","P","Q","R","S","T","U","V","W","X","Y","Z">>
LowerCase == <<"a","b","c","d","e","f","g","h","i","j","k","l","m",
               "n","o","p","q","r","s","t","u","v","w","x","y","z">>
Digits == <<"0","1","2","3","4","5","6","7","8","9">>
Whitespace == {" ", "\t", "\n"}

\* a letter outside ASCII, capital and small (E with acute accent)
UPPER_E_ACUTE == "[E-acute]"
LOWER_E_ACUTE == "[e-acute]"

\* the case folding of SQLite's lower() and LIKE: the 26 ASCII letters only
AsciiLowerChar(c) ==
    IF \E i \in 1..26 : UpperCase[i] = c
    THEN LowerCase[CHOOSE i \in 1..26 : UpperCase[i] = c]
    ELSE c

\* str.lower() on one character
LowerChar(c) == IF c = UPPER_E_ACUTE THEN LOWER_E_ACUTE ELSE AsciiLowerChar(c)

\* str.lower()
Lower(s) == [i \in 1..Len(s) |-> LowerChar(s[i])]

RECURSIVE LStrip(_)
LStrip(s) == IF s # <<>> /\ Head(s) \in Whitespace THEN LStrip(Tail(s)) ELSE s

RECURSIVE RStrip(_)
RStrip(s) ==
    IF s # <<>> /\ s[Len(s)] \in Whitespace
    THEN RStrip(SubSeq(s, 1, Len(s) - 1))
    ELSE s

\* str.strip()
Strip(s) == RStrip(LStrip(s))

\* str(n) for a clock value below ten
IntToStr(n) == <<Digits[n + 1]>>

IsAlnum(c) ==
    \/ \E i \in 1..26 : LowerCase[i] = c \/ UpperCase[i] = c
    \/ \E i \in 1..10 : Digits[i] = c

\* SQL LIKE as SQLite evaluates it: "%" matches any run of characters, "_"
\* any one character, and letters compare ignoring (ASCII) case.
RECURSIVE Like(_, _)
Like(pattern, s) ==
    IF pattern = <<>> THEN s = <<>>
    ELSE IF Head(pattern) = "%"
         THEN \E k \in 0..Len(s) : Like(Tail(pattern), SubSeq(s, k + 1, Len(s)))
    ELSE IF s = <<>> THEN FALSE
    ELSE IF Head(pattern) = "_" THEN Like(Tail(pattern), Tail(s))
    ELSE AsciiLowerChar(Head(pattern)) = AsciiLowerChar(Head(s))
         /\ Like(Tail(pattern), Tail(s))

\* slugify(text, lowercase=True, separator="-"): every run of characters that
\* are not letters or digits becomes one separator, and separators at either
\* end are dropped.
\* slugify first transliterates to ASCII: an accented letter becomes its base
\* letter.
Unidecode(c) ==
    IF c = UPPER_E_ACUTE THEN "E" ELSE IF c = LOWER_E_ACUTE THEN "e" ELSE c

RECURSIVE SlugChars(_, _)
SlugChars(s, acc) ==
    IF s = <<>> THEN acc
    ELSE IF IsAlnum(Unidecode(Head(s)))
         THEN SlugChars(Tail(s), Append(acc, LowerChar(Unidecode(Head(s)))))
    ELSE IF acc = <<>> \/ acc[Len(acc)] = "-" THEN SlugChars(Tail(s), acc)
    ELSE SlugChars(Tail(s), Append(acc, "-"))

create_slug(text) ==
    LET raw == SlugChars(text, <<>>)
    IN  IF raw # <<>> /\ raw[Len(raw)] = "-" THEN SubSeq(raw, 1, Len(raw) - 1) ELSE raw

(***************************************************************************)
(* Skill name normalization.                                               *)
(***************************************************************************)
\* alias table: <<lower-case key, canonical form>>
KNOWN_CAPITALIZATIONS ==
    {
       <<<<"p","y","t","h","o","n">>, <<"P","y","t","h","o","n">>>>,
       <<<<"j","a","v","a","s","c","r","i","p","t">>, <<"J","a","v","a","S","c","r","i","p","t">>>>,
       <<<<"t","y","p","e","s","c","r","i","p","t">>, <<"T","y","p","e","S","c","r","i","p","t">>>>,
       <<<<"r","e","a","c","t">>, <<"R","e","a","c","t">>>>,
       <<<<"r","e","a","c","t",".","j","s">>, <<"R","e","a","c","t">>>>,
       <<<<"r","e","a","c","t","j","s">>, <<"R","e","a","c","t">>>>,
       <<<<"v","u","e">>, <<"V","u","e",".","j","s">>>>,
       <<<<"v","u","e",".","j","s">>, <<"V","u","e",".","j","s">>>>,
       <<<<"a","n","g","u","l","a","r">>, <<"A","n","g","u","l","a","r">>>>,
       <<<<"n","o","d","e",".","j","s">>, <<"N","o","d","e",".","j","s">>>>,
       <<<<"n","o","d","e","j","s">>, <<"N","o","d","e",".","j","s">>>>,
       <<<<"f","a","s","t","a","p","i">>, <<"F","a","s","t","A","P","I">>>>,
       <<<<"d","j","a","n","g","o">>, <<"D","j","a","n","g","o">>>>,
       <<<<"f","l","a","s","k">>, <<"F","l","a","s","k">>>>,
       <<<<"p","o","s","t","g","r","e","s","q","l">>, <<"P","o","s","t","g","r","e","S","Q","L">>>>,
       <<<<"m","y","s","q","l">>, <<"M","y","S","Q","L">>>>,
       <<<<"m","o","n","g","o","d","b">>, <<"M","o","n","g","o","D","B">>>>,
       <<<<"r","e","d","i","s">>, <<"R","e","d","i","s">>>>,
       <<<<"d","o","c","k","e","r">>, <<"D","o","c","k","e","r">>>>,
       <<<<"k","u","b","e","r","n","e","t","e","s">>, <<"K","u","b","e","r","n","e","t","e","s">>>>,
       <<<<"a","w","s">>, <<"A","W","S">>>>,
       <<<<"g","c","p">>, <<"G","C","P">>>>,
       <<<<"a","z","u","r","e">>, <<"A","z","u","r","e">>>>,
       <<<<"g","i","t">>, <<"G","i","t">>>>,
       <<<<"g","r","a","p","h","q","l">>, <<"G","r","a","p","h","Q","L">>>>,
       <<<<"r","e","s","t">>, <<"R","E","S","T">>>>,
       <<<<"s","q","l">>, <<"S","Q","L">>>>,
       <<<<"h","t","m","l">>, <<"H","T","M","L">>>>,
       <<<<"c","s","s">>, <<"C","S","S">>>>,
       <<<<"r","u","s","t">>, <<"R","u","s","t">>>>,
       <<<<"g","o">>, <<"G","o">>>>,
       <<<<"g","o","l","a","n","g">>, <<"G","o">>>>,
       <<<<"j","a","v","a">>, <<"J","a","v","a">>>>,
       <<<<"c","+","+">>, <<"C","+","+">>>>,
       <<<<"c","#">>, <<"C","#">>>>,
       <<<<"r","u","b","y">>, <<"R","u","b","y">>>>,
       <<<<"s","c","a","l","a">>, <<"S","c","a","l","a">>>>,
       <<<<"k","a","f","k","a">>, <<"A","p","a","c","h","e"," ","K","a","f","k","a">>>>,
       <<<<"a","p","a","c","h","e"," ","k","a","f","k","a">>, <<"A","p","a","c","h","e"," ","K","a","f","k","a">>>>,
       <<<<"s","p","a","r","k">>, <<"A","p","a","c","h","e"," ","S","p","a","r","k">>>>,
       <<<<"a","p","a","c","h","e"," ","s","p","a","r","k">>, <<"A","p","a","c","h","e"," ","S","p","a","r","k">>>>
    }

\* a lookup that compares the trimmed name with the keys as it is written
NormalizeCaseSensitive(raw) ==
    LET name == Strip(raw)
    IN  IF \E e \in KNOWN_CAPITALIZATIONS : e[1] = name
        THEN (CHOOSE e \in KNOWN_CAPITALIZATIONS : e[1] = name)[2]
        ELSE name

\* a lookup of the name as it comes, trimmed only when it is no alias
NormalizeLookupUntrimmed(raw) ==
    IF \E e \in KNOWN_CAPITALIZATIONS : e[1] = Lower(raw)
    THEN (CHOOSE e \in KNOWN_CAPITALIZATIONS : e[1] = Lower(raw))[2]
    ELSE Strip(raw)

normalize_skill_name(raw) ==
    LET name == Strip(raw)
        lower_name == Lower(name)
    IN  IF \E e \in KNOWN_CAPITALIZATIONS : e[1] = lower_name
        THEN (CHOOSE e \in KNOWN_CAPITALIZATIONS : e[1] = lower_name)[2]
        ELSE name

(***************************************************************************)
(* URLs: urllib.parse.urlparse and the checks built on it.                 *)
(***************************************************************************)
IsAlpha(c) == \E i \in 1..26 : UpperCase[i] = c \/ LowerCase[i] = c

\* characters urllib accepts in a scheme
SchemeChar(c) == IsAlnum(c) \/ c \in {"+", "-", "."}

\* str.find over a set of characters, from an index: Len(s) + 1 when absent
Find(s, chars, from) ==
    LET hits == {i \in from..Len(s) : s[i] \in chars}
    IN  IF hits = {} THEN Len(s) + 1
        ELSE CHOOSE i \in hits : \A j \in hits : i <= j

\* urllib.parse.urlparse, the two components the scraper reads: the scheme
\* (lowercased) is what precedes the first ":" when that is a legal scheme;
\* the netloc is what follows "//" up to the first "/", "?" or "#".
urlparse(url) ==
    LET colon == Find(url, {":"}, 1)
        has_scheme == /\ 1 < colon
                      /\ colon <= Len(url)
                      /\ IsAlpha(url[1])
                      /\ \A i \in 1..(colon - 1) : SchemeChar(url[i])
        scheme == IF has_scheme THEN Lower(SubSeq(url, 1, colon - 1)) ELSE <<>>
        rest == IF has_scheme THEN SubSeq(url, colon + 1, Len(url)) ELSE url
        has_netloc == Len(rest) >= 2 /\ rest[1] = "/" /\ rest[2] = "/"
        delim == Find(rest, {"/", "?", "#"}, 3)
        netloc == IF has_netloc THEN SubSeq(rest, 3, delim - 1) ELSE <<>>
    IN  [scheme |-> scheme, netloc |-> netloc]

\* the netloc, lowercased: it keeps a port or user part the URL carries
get_domain(url) == Lower(urlparse(url).netloc)

\* domains scrape refuses
UNSUPPORTED_DOMAINS == {<<"l","i","n","k","e","d","i","n",".","c","o","m">>,
                        <<"w","w","w",".","l","i","n","k","e","d","i","n",".","c","o","m">>}

\* the messages of the errors scrape raises
MSG_INVALID_URL == "Invalid URL"
MSG_NOT_SUPPORTED == "is not supported: use the direct ATS link"
MSG_HTTPX_FAILED == "Failed to scrape after attempts"
MSG_THIN_NO_PLAYWRIGHT ==
    "Scraped content was too thin and Playwright is not installed. Install it with: uv sync --extra browser"
MSG_PLAYWRIGHT_IMPORT == "Playwright is not installed. Run: uv sync --extra browser"
MSG_PLAYWRIGHT_FAILED == "Failed to scrape with Playwright after attempts"

\* the messages of the ScraperError a call of scrape can end with
ScrapeFailures == {MSG_THIN_NO_PLAYWRIGHT, MSG_PLAYWRIGHT_IMPORT, MSG_PLAYWRIGHT_FAILED}

HTTP_SCHEMES == {<<"h","t","t","p">>, <<"h","t","t","p","s">>}

is_valid_url(url) ==
    LET result == urlparse(url)
    IN  result.scheme \in HTTP_SCHEMES /\ result.netloc # <<>>

\* the host of the URL: its netloc without the user part and the port
HostOf(url) ==
    LET netloc == urlparse(url).netloc
        ats == {i \in 1..Len(netloc) : netloc[i] = "@"}
        start == IF ats = {} THEN 1
                 ELSE (CHOOSE i \in ats : \A j \in ats : j <= i) + 1
        hostport == SubSeq(netloc, start, Len(netloc))
    IN  Lower(SubSeq(hostport, 1, Find(hostport, {":"}, 1) - 1))

\* the URLs scrape is called with
URL_JOB == <<"h","t","t","p","s",":","/","/","a",".","i","o","/","j">>
URL_JOB_2 == <<"h","t","t","p","s",":","/","/","a",".","i","o","/","k">>
URL_UPPER == <<"H","T","T","P",":","/","/","A",".","i","o">>
URL_FTP == <<"f","t","p",":","/","/","a",".","i","o","/","j">>
URL_BARE == <<"a",".","i","o","/","j">>
URL_NO_NETLOC == <<"h","t","t","p","s",":","/","/","/","j">>
URL_PORT_ONLY == <<"h","t","t","p",":","/","/",":","8","0","/","j">>
URL_LINKEDIN == <<"h","t","t","p","s",":","/","/","l","i","n","k","e","d","i","n",".","c","o","m","/","j">>
URL_WWW_LINKEDIN == <<"h","t","t","p","s",":","/","/","W","W","W",".","L","i","n","k","e","d","I","n",".","c","o","m">>
URL_LINKEDIN_PORT == <<"h","t","t","p","s",":","/","/","l","i","n","k","e","d","i","n",".","c","o","m",":","4","4","3","/","j">>
ScrapeUrls == {URL_JOB,
               URL_UPPER,
               URL_FTP,
               URL_BARE,
               URL_NO_NETLOC,
               URL_PORT_ONLY,
               URL_LINKEDIN,
               URL_WWW_LINKEDIN,
               URL_LINKEDIN_PORT}

(***************************************************************************)
(* The store (models/*.py), the capture invocations and the clock.         *)
(***************************************************************************)
VARIABLES
    companies,    \* committed rows of table companies
    roles,        \* committed rows of table roles
    skills,       \* committed rows of table skills
    role_skills,  \* committed rows of table role_skills
    writer,       \* capture holding the SQLite write lock, 0 when it is free
    now,          \* int(time.time())
    files,        \* artifact files on disk: set of [path, content]
    cap,          \* per capture: position and local variables of the pipeline
    txn,          \* per capture: rows flushed in its open transaction
    outcome,      \* per capture: what the invocation returned or raised
    trace,        \* per capture: the stages it has executed, in order
    updates,      \* number of status updates performed
    scr,          \* one call of ScraperService.scrape: position, inputs, locals
    events,       \* that call's effects in order: sleeps, requests, browser use
    llm,          \* one call of LLMService: position, provider, response, result
    sk,           \* one session of SkillExtractorService: its rows and its calls
    view          \* the last call of a read or status endpoint: input, result

capVars == <<companies, roles, skills, role_skills, writer, now, files,
             cap, txn, outcome, trace, updates>>

Captures == 1..NumCaptures

None == <<"null">>

UNKNOWN_COMPANY == <<"U","n","k","n","o","w","n"," ","C","o","m","p","a","n","y">>
UNKNOWN_TITLE == <<"U","n","k","n","o","w","n"," ","T","i","t","l","e">>
UNKNOWN == <<"U","n","k","n","o","w","n">>
PENDING == <<"pending">>
DATA_ROOT == "/data_root"

\* Python's  x or default  on an optional string
OrDefault(x, default) == IF x = None \/ x = <<>> THEN default ELSE x

\* the postings captured, and what else a caller may pass for a URL
Urls == {URL_JOB, URL_JOB_2}
RequestUrls == Urls \cup {URL_BARE, URL_LINKEDIN}

\* pydantic's HttpUrl on the request body: an http(s) URL with a host
HttpUrl(u) == urlparse(u).scheme \in HTTP_SCHEMES /\ HostOf(u) # <<>>
Vias == {"http", "cli"}
Statuses == {"active", "applied", "rejected", "archived"}

\* what the model's structured extract may return (llm.extract_job_data)
JobDataSet ==
    { [company |-> <<"T"," ","c">>, title |-> <<"D","e","v">>,
       required_skills |-> <<<<"g","o">>>>, preferred_skills |-> <<<<"R">>>>],
      [company |-> <<"T","-","c">>, title |-> <<" ">>,
       required_skills |-> <<<<"g","o","l","a","n","g">>, <<" ">>>>,
       preferred_skills |-> <<>>],
      [company |-> <<"T",".","c">>, title |-> None,
       required_skills |-> <<<<" ","r">>>>, preferred_skills |-> <<<<>>>>],
      [company |-> <<"t"," ","c"," ">>, title |-> <<"D","e","v">>,
       required_skills |-> <<<<"G","o">>>>, preferred_skills |-> <<<<"g","o">>>>],
      [company |-> None, title |-> <<"D","e","v">>,
       required_skills |-> <<>>, preferred_skills |-> <<<<"R">>>>],
      [company |-> <<LOWER_E_ACUTE>>, title |-> <<"D","e","v">>,
       required_skills |-> <<<<LOWER_E_ACUTE>>>>, preferred_skills |-> <<>>],
      [company |-> <<"t"," ","c">>, title |-> <<"D","e","v">>,
       required_skills |-> <<<<UPPER_E_ACUTE>>>>, preferred_skills |-> <<>>] }

NoJobData == [company |-> None, title |-> None,
              required_skills |-> <<>>, preferred_skills |-> <<>>]
NoCompany == [id |-> 0, name |-> <<>>, slug |-> <<>>]

NoOutcome == [status |-> "none", role_id |-> 0, company |-> <<>>, title |-> <<>>,
              skills_extracted |-> 0, error |-> "none", stage |-> "none",
              detail |-> "", http_status |-> 0]

EmptyTxn == [companies |-> {}, roles |-> {}, skills |-> {}, role_skills |-> {}]

InitCap == [pc |-> "check-duplicate", via |-> "http", url |-> <<>>, html |-> <<>>,
            markdown |-> <<>>, job_data |-> NoJobData, company |-> NoCompany,
            slug |-> <<>>, role_id |-> 0]

Stages == <<"check-duplicate", "fetch", "denoise", "extract", "upsert-employer",
            "create-posting", "persist-artifacts", "link-skills", "commit">>

\* what the session of capture p sees: committed rows and its own flushed rows
Companies(p) == companies \cup txn[p].companies
Roles(p) == roles \cup txn[p].roles
Skills(p) == skills \cup txn[p].skills
RoleSkills(p) == role_skills \cup txn[p].role_skills

\* Query.first(): the matching row with the lowest rowid
First(rows) == CHOOSE r \in rows : \A q \in rows : r.id <= q.id

\* INTEGER PRIMARY KEY: one more than the largest rowid in the table
NewId(rows) ==
    IF rows = {} THEN 1
    ELSE (CHOOSE i \in {r.id : r \in rows} : \A r \in rows : r.id <= i) + 1

\* Query.count() of the links of a role
SkillsCount(rows, role_id) == Cardinality({l \in rows : l.role_id = role_id})

\* the text the scraper and the model calls hand back for a URL
PageOf(u) == <<"html of", u>>
MarkdownOf(u) == <<"markdown of", u>>

CapInit ==
    /\ companies = {}
    /\ roles = {}
    /\ skills = {}
    /\ role_skills = {}
    /\ writer = 0
    /\ now = 0
    /\ files = {}
    /\ cap = [p \in Captures |-> InitCap]
    /\ txn = [p \in Captures |-> EmptyTxn]
    /\ outcome = [p \in Captures |-> NoOutcome]
    /\ trace = [p \in Captures |-> <<>>]
    /\ updates = 0

(***************************************************************************)
(* Leaving the pipeline.                                                   *)
(***************************************************************************)
\* the invocation has returned or raised: its local variables are gone
Returned(c) == [InitCap EXCEPT !.pc = "done", !.url = c.url, !.via = c.via]

\* scrape_job is a coroutine of the server's one event loop: from the return
\* of its last await (extract_job_data) to its end it runs without yielding,
\* so no other HTTP capture takes a step meanwhile. Each CLI run is a process
\* of its own.
SyncSection == {"upsert-employer", "resolve-slug", "insert-employer", "create-posting",
                "persist-artifacts", "link-skills", "commit"}

EventLoopFree(p, v) ==
    v = "http" =>
        \A q \in Captures \ {p} : ~(cap[q].via = "http" /\ cap[q].pc \in SyncSection)

Enter(p, stage) == trace' = [trace EXCEPT ![p] = Append(@, stage)]

\* a handler that answers every failure with a server error
StatusCodeAlways500(error) == 500

\* The status of the error response: request validation and ScraperError
\* give 422, LLMError gives 500, and so does any exception that the handler
\* does not catch.
status_code(error) ==
    IF error \in {"RequestValidationError", "ScraperError"} THEN 422 ELSE 500

\* what the caller gets when the invocation fails: over HTTP an error
\* response, on the command line the printed error
Failure(v, stage, error) ==
    [NoOutcome EXCEPT !.status = "failed", !.error = error, !.stage = stage,
                      !.http_status = IF v = "http" THEN status_code(error) ELSE 0]

\* a session that keeps what was flushed when the handler raises
AbortKeepsFlushed(p, stage, error) ==
    /\ companies' = companies \cup txn[p].companies
    /\ roles' = roles \cup txn[p].roles
    /\ skills' = skills \cup txn[p].skills
    /\ role_skills' = role_skills \cup txn[p].role_skills
    /\ txn' = [txn EXCEPT ![p] = EmptyTxn]
    /\ writer' = IF writer = p THEN 0 ELSE writer
    /\ outcome' = [outcome EXCEPT ![p] = Failure(cap[p].via, stage, error)]
    /\ cap' = [cap EXCEPT ![p] = Returned(cap[p])]

\* a handler that reports the failure and carries on with the pipeline
AbortCarriesOn(p, stage, error) ==
    /\ txn' = [txn EXCEPT ![p] = EmptyTxn]
    /\ writer' = IF writer = p THEN 0 ELSE writer
    /\ outcome' = [outcome EXCEPT ![p] = Failure(cap[p].via, stage, error)]
    /\ cap' = cap
    /\ UNCHANGED <<companies, roles, skills, role_skills>>

\* An exception leaves the handler: get_db's finally (HTTP) or main's
\* except/finally (CLI) closes the session, which rolls back every row the
\* invocation flushed and releases the write lock.
Abort(p, stage, error) ==
    /\ txn' = [txn EXCEPT ![p] = EmptyTxn]
    /\ writer' = IF writer = p THEN 0 ELSE writer
    /\ outcome' = [outcome EXCEPT ![p] = Failure(cap[p].via, stage, error)]
    /\ cap' = [cap EXCEPT ![p] = Returned(cap[p])]
    /\ UNCHANGED <<companies, roles, skills, role_skills>>

\* the same, for an exception whose message the model tells apart
AbortWith(p, stage, error, detail) ==
    /\ txn' = [txn EXCEPT ![p] = EmptyTxn]
    /\ writer' = IF writer = p THEN 0 ELSE writer
    /\ outcome' = [outcome EXCEPT ![p] =
                     [Failure(cap[p].via, stage, error) EXCEPT !.detail = detail]]
    /\ cap' = [cap EXCEPT ![p] = Returned(cap[p])]
    /\ UNCHANGED <<companies, roles, skills, role_skills>>

(***************************************************************************)
(* LLMService: complete, denoise_job_posting, extract_job_data.            *)
(***************************************************************************)
\* A response of the backend is a sequence of pieces: a code fence, a
\* language tag, white space, or a run of text. What json.loads makes of a
\* run of text is looked up in JSON_DOCUMENTS; any other text is not JSON.
\* (The double quotes of the JSON texts are written as single quotes here.)
\* the piece that stands for a code fence, three backquotes
FENCE == "[fence]"

\* A parsed JSON value: its Python type, what  x in value  holds for (the
\* keys of a dict, the elements of a list, the substrings of a str), and for
\* a dict the fields the pipeline reads.
JsonValue(type, members, job) == [type |-> type, members |-> members, job |-> job]

NoValue == JsonValue("none", {}, NoJobData)

DOC_JOB_1 == "{'title': 'Dev', 'company': 'T c', 'required_skills': ['go'], 'preferred_skills': ['R']}"
DOC_JOB_2 == "{'title': ' ', 'company': 'T-c', 'required_skills': ['golang', ' '], 'preferred_skills': []}"
DOC_JOB_3 == "{'title': null, 'company': 'T.c', 'required_skills': [' r'], 'preferred_skills': ['']}"
DOC_JOB_4 == "{'title': 'Dev', 'company': 't c ', 'required_skills': ['Go'], 'preferred_skills': ['go']}"
DOC_JOB_5 == "{'title': 'Dev', 'company': null, 'required_skills': [], 'preferred_skills': ['R']}"
DOC_JOB_6 == "{'title': 'Dev', 'company': '[e-acute]', 'required_skills': ['[e-acute]'], 'preferred_skills': []}"
DOC_JOB_7 == "{'title': 'Dev', 'company': 't c', 'required_skills': ['[E-acute]'], 'preferred_skills': []}"
DOC_NO_TITLE == "{'company': 'T c', 'required_skills': ['go'], 'preferred_skills': ['R']}"
DOC_NO_COMPANY == "{'title': 'Dev', 'required_skills': ['go'], 'preferred_skills': ['R']}"
DOC_NO_REQUIRED_SKILLS == "{'title': 'Dev', 'company': 'T c', 'preferred_skills': ['R']}"
DOC_NO_PREFERRED_SKILLS == "{'title': 'Dev', 'company': 'T c', 'required_skills': ['go']}"
DOC_SKILLS_ONLY == "{'required_skills': ['go'], 'preferred_skills': ['R']}"
DOC_EMPTY_OBJECT == "{}"
DOC_FIELD_LIST == "['title', 'company', 'required_skills', 'preferred_skills']"
DOC_EMPTY_LIST == "[]"
DOC_FIELD_STRING == "'title, company, required_skills, preferred_skills'"
DOC_STRING == "'Dev'"
DOC_NUMBER == "42"
DOC_NULL == "null"

JSON_DOCUMENTS ==
    { [text |-> DOC_JOB_1,
       value |-> JsonValue("object", {"title", "company", "required_skills", "preferred_skills"},
                   [company |-> <<"T"," ","c">>, title |-> <<"D","e","v">>,
                   required_skills |-> <<<<"g","o">>>>,
                   preferred_skills |-> <<<<"R">>>>])],
      [text |-> DOC_JOB_2,
       value |-> JsonValue("object", {"title", "company", "required_skills", "preferred_skills"},
                   [company |-> <<"T","-","c">>, title |-> <<" ">>,
                   required_skills |-> <<<<"g","o","l","a","n","g">>, <<" ">>>>,
                   preferred_skills |-> <<>>])],
      [text |-> DOC_JOB_3,
       value |-> JsonValue("object", {"title", "company", "required_skills", "preferred_skills"},
                   [company |-> <<"T",".","c">>, title |-> None,
                   required_skills |-> <<<<" ","r">>>>,
                   preferred_skills |-> <<<<>>>>])],
      [text |-> DOC_JOB_4,
       value |-> JsonValue("object", {"title", "company", "required_skills", "preferred_skills"},
                   [company |-> <<"t"," ","c"," ">>, title |-> <<"D","e","v">>,
                   required_skills |-> <<<<"G","o">>>>,
                   preferred_skills |-> <<<<"g","o">>>>])],
      [text |-> DOC_JOB_5,
       value |-> JsonValue("object", {"title", "company", "required_skills", "preferred_skills"},
                   [company |-> None, title |-> <<"D","e","v">>,
                   required_skills |-> <<>>,
                   preferred_skills |-> <<<<"R">>>>])],
      [text |-> DOC_JOB_6,
       value |-> JsonValue("object", {"title", "company", "required_skills", "preferred_skills"},
                   [company |-> <<LOWER_E_ACUTE>>, title |-> <<"D","e","v">>,
                   required_skills |-> <<<<LOWER_E_ACUTE>>>>,
                   preferred_skills |-> <<>>])],
      [text |-> DOC_JOB_7,
       value |-> JsonValue("object", {"title", "company", "required_skills", "preferred_skills"},
                   [company |-> <<"t"," ","c">>, title |-> <<"D","e","v">>,
                   required_skills |-> <<<<UPPER_E_ACUTE>>>>,
                   preferred_skills |-> <<>>])],
      [text |-> DOC_NO_TITLE,
       value |-> JsonValue("object", {"company", "required_skills", "preferred_skills"},
                   NoJobData)],
      [text |-> DOC_NO_COMPANY,
       value |-> JsonValue("object", {"title", "required_skills", "preferred_skills"},
                   NoJobData)],
      [text |-> DOC_NO_REQUIRED_SKILLS,
       value |-> JsonValue("object", {"title", "company", "preferred_skills"},
                   NoJobData)],
      [text |-> DOC_NO_PREFERRED_SKILLS,
       value |-> JsonValue("object", {"title", "company", "required_skills"},
                   NoJobData)],
      [text |-> DOC_SKILLS_ONLY,
       value |-> JsonValue("object", {"required_skills", "preferred_skills"},
                   NoJobData)],
      [text |-> DOC_EMPTY_OBJECT,
       value |-> JsonValue("object", {},
                   NoJobData)],
      [text |-> DOC_FIELD_LIST,
       value |-> JsonValue("array", {"title", "company", "required_skills", "preferred_skills"},
                   NoJobData)],
      [text |-> DOC_EMPTY_LIST,
       value |-> JsonValue("array", {},
                   NoJobData)],
      [text |-> DOC_FIELD_STRING,
       value |-> JsonValue("string", {"title", "company", "required_skills", "preferred_skills"},
                   NoJobData)],
      [text |-> DOC_STRING,
       value |-> JsonValue("string", {},
                   NoJobData)],
      [text |-> DOC_NUMBER,
       value |-> JsonValue("number", {},
                   NoJobData)],
      [text |-> DOC_NULL,
       value |-> JsonValue("null", {},
                   NoJobData)] }

\* what a call of the model ends with
LLMResult(kind, msg, field, data) ==
    [kind |-> kind, msg |-> msg, field |-> field, data |-> data]
NoLLMResult == LLMResult("none", "", "", NoValue)

MSG_API_CALL_FAILED == "API call failed"
MSG_UNSUPPORTED_PROVIDER == "Unsupported LLM provider"
MSG_INVALID_JSON == "LLM returned invalid JSON"
MSG_MISSING_FIELD == "LLM response missing required field"
MSG_NOT_ITERABLE == "argument of type is not iterable"

\* the two re.sub calls: an opening fence with an optional json tag and the
\* white space after it, then a closing fence with the white space before it
strip_code_fence(response) ==
    LET after_fence == Tail(response)
        after_tag == IF after_fence # <<>> /\ Head(after_fence) = "json"
                     THEN Tail(after_fence) ELSE after_fence
        opened == LStrip(after_tag)
    IN  IF opened # <<>> /\ opened[Len(opened)] = FENCE
        THEN RStrip(SubSeq(opened, 1, Len(opened) - 1))
        ELSE opened

\* json.loads: white space around the one document is allowed
json_loads(text) ==
    LET body == Strip(text)
    IN  IF Len(body) = 1 /\ \E d \in JSON_DOCUMENTS : d.text = body[1]
        THEN (CHOOSE d \in JSON_DOCUMENTS : d.text = body[1]).value
        ELSE NoValue

required_fields == <<"title", "company", "required_skills", "preferred_skills">>

\* types on which  field in data  raises TypeError
NOT_ITERABLE == {"number", "null", "boolean"}

\* an extraction that returns whatever parses, without looking for the fields
ExtractUnchecked(raw_response) ==
    LET stripped == Strip(raw_response)
        response == IF stripped # <<>> /\ Head(stripped) = FENCE
                    THEN strip_code_fence(stripped) ELSE stripped
        data == json_loads(response)
    IN  IF data = NoValue
        THEN LLMResult("LLMError", MSG_INVALID_JSON, "", NoValue)
        ELSE LLMResult("ok", "", "", data)

\* extract_job_data from the response of complete on
extract_job_data(raw_response) ==
    LET stripped == Strip(raw_response)
        response == IF stripped # <<>> /\ Head(stripped) = FENCE
                    THEN strip_code_fence(stripped) ELSE stripped
        data == json_loads(response)
        missing == {i \in 1..Len(required_fields) :
                      required_fields[i] \notin data.members}
    IN  IF data = NoValue
        THEN LLMResult("LLMError", MSG_INVALID_JSON, "", NoValue)
        ELSE IF data.type \in NOT_ITERABLE
        THEN LLMResult("TypeError", MSG_NOT_ITERABLE, "", NoValue)
        ELSE IF missing # {}
        THEN LLMResult("LLMError", MSG_MISSING_FIELD,
                       required_fields[CHOOSE i \in missing : \A j \in missing : i <= j],
                       NoValue)
        ELSE LLMResult("ok", "", "", data)

\* the responses the backend may give to the structured-extract prompt
Fenced(tag, text) == <<FENCE>> \o tag \o <<"\n", text, "\n", FENCE>>

Responses ==
    {<<d.text>> : d \in JSON_DOCUMENTS}
    \cup {Fenced(<<"json">>, DOC_JOB_1), Fenced(<<>>, DOC_JOB_2),
          Fenced(<<"json">>, DOC_NO_COMPANY), Fenced(<<"python">>, DOC_JOB_1),
          <<"\n", " ", DOC_JOB_3, "\n">>,
          <<FENCE, "json", "\n", DOC_JOB_4>>,
          <<"Here is the JSON:", "\n", DOC_JOB_1>>,
          <<DOC_JOB_1, "\n", FENCE>>,
          <<"{title: Dev}">>,
          <<FENCE>>,
          <<>>}

Providers == {"openai", "anthropic", "ollama", "openrouter"}
SupportedProviders == {"openai", "anthropic", "ollama"}

LLMIdle == [pc |-> "idle", op |-> "none", provider |-> "openai",
            response |-> <<>>, failure |-> "none", result |-> NoLLMResult]

LLMInit ==
    \E op \in {"denoise", "extract"}, provider \in Providers :
        llm = [LLMIdle EXCEPT !.pc = "complete", !.op = op, !.provider = provider]

\* complete: the configured provider is none of the three that are dispatched
LLMUnsupportedProvider ==
    /\ llm.pc = "complete"
    /\ llm.provider \notin SupportedProviders
    /\ llm' = [llm EXCEPT !.pc = "done", !.failure = "configuration",
                          !.result = LLMResult("ValueError", MSG_UNSUPPORTED_PROVIDER,
                                               "", NoValue)]
    /\ UNCHANGED <<capVars, scr, events, sk, view>>

\* _call_openai / _call_anthropic / _call_ollama: any exception of the call
\* is wrapped into LLMError
LLMTransportError ==
    /\ llm.pc = "complete"
    /\ llm.provider \in SupportedProviders
    /\ llm' = [llm EXCEPT !.pc = "done", !.failure = "transport",
                          !.result = LLMResult("LLMError", MSG_API_CALL_FAILED,
                                               "", NoValue)]
    /\ UNCHANGED <<capVars, scr, events, sk, view>>

\* the call returns text: denoise_job_posting returns it as it is,
\* extract_job_data goes on to parse it
LLMComplete ==
    /\ llm.pc = "complete"
    /\ llm.provider \in SupportedProviders
    /\ \E response \in Responses :
         llm' = IF llm.op = "denoise"
                THEN [llm EXCEPT !.pc = "done", !.response = response,
                                 !.result = LLMResult("ok", "", "", NoValue)]
                ELSE [llm EXCEPT !.pc = "parse", !.response = response]
    /\ UNCHANGED <<capVars, scr, events, sk, view>>

\* extract_job_data after complete has returned
LLMParse ==
    /\ llm.pc = "parse"
    /\ LET result == extract_job_data(llm.response)
       IN  llm' = [llm EXCEPT !.pc = "done", !.result = result,
                              !.failure = IF result.kind = "ok" THEN "none"
                                          ELSE "malformed"]
    /\ UNCHANGED <<capVars, scr, events, sk, view>>

(***************************************************************************)
(* The capture pipeline: scrape_job (HTTP) and main (CLI).                 *)
(***************************************************************************)
\* a summary that leaves the number of links at its default
ExistingSummaryNoCount(v, existing_role) ==
    LET found == {c \in companies : c.id = existing_role.company_id}
    IN  [NoOutcome EXCEPT
           !.status = "already_exists",
           !.role_id = existing_role.id,
           !.company = IF found # {} THEN First(found).name
                       ELSE IF v = "http" THEN UNKNOWN ELSE UNKNOWN_COMPANY,
           !.title = existing_role.title,
           !.http_status = IF v = "http" THEN 200 ELSE 0]

\* the summary of an existing posting
ExistingSummary(v, existing_role) ==
    LET found == {c \in companies : c.id = existing_role.company_id}
    IN  [NoOutcome EXCEPT
           !.status = "already_exists",
           !.role_id = existing_role.id,
           !.company = IF found # {} THEN First(found).name
                       ELSE IF v = "http" THEN UNKNOWN ELSE UNKNOWN_COMPANY,
           !.title = existing_role.title,
           !.skills_extracted = SkillsCount(role_skills, existing_role.id),
           !.http_status = IF v = "http" THEN 200 ELSE 0]

\* a lookup that only sees postings still active
ExistingRolesActiveOnly(u) == {r \in roles : r.url = u /\ r.status = "active"}

\* db.query(Role).filter(Role.url == url)
ExistingRoles(u) == {r \in roles : r.url = u}

\* The request body fails validation (url: HttpUrl): the framework answers
\* 422 and scrape_job is never called.
RejectRequest(p) ==
    /\ cap[p].pc = "check-duplicate"
    /\ IF p = 1 THEN TRUE ELSE cap[p - 1].pc # "check-duplicate"
    /\ \E u \in RequestUrls :
         /\ ~HttpUrl(u)
         /\ outcome' = [outcome EXCEPT
                          ![p] = [Failure("http", "none", "RequestValidationError")
                                    EXCEPT !.status = "rejected"]]
         /\ cap' = [cap EXCEPT ![p] = Returned([@ EXCEPT !.url = u, !.via = "http"])]
    /\ UNCHANGED <<scr, events, llm, sk, view, companies, roles, skills, role_skills, writer, now, files,
                   txn, trace, updates>>

\* Deduplication: look the URL up; an existing posting ends the invocation.
CheckDuplicate(p) ==
    /\ cap[p].pc = "check-duplicate"
    /\ IF p = 1 THEN TRUE ELSE cap[p - 1].pc # "check-duplicate"
    /\ \E u \in RequestUrls, v \in Vias :
         LET existing == ExistingRoles(u)
         IN  /\ v = "http" => HttpUrl(u)
             /\ EventLoopFree(p, v)
             /\ Enter(p, "check-duplicate")
             /\ IF existing # {}
                THEN /\ outcome' = [outcome EXCEPT
                                      ![p] = ExistingSummary(v, First(existing))]
                     /\ cap' = [cap EXCEPT ![p] = Returned([@ EXCEPT !.url = u,
                                                                       !.via = v])]
                ELSE /\ cap' = [cap EXCEPT ![p].pc = "fetch", ![p].url = u,
                                           ![p].via = v]
                     /\ UNCHANGED outcome
    /\ UNCHANGED <<scr, events, llm, sk, view, companies, roles, skills, role_skills, writer, now, files,
                   txn, updates>>

\* Step 1: scraper.scrape(url)
Scrape(p) ==
    /\ cap[p].pc = "fetch"
    /\ EventLoopFree(p, cap[p].via)
    /\ Enter(p, "fetch")
    /\ IF ~is_valid_url(cap[p].url)
       THEN AbortWith(p, "fetch", "ValueError", MSG_INVALID_URL)
       ELSE IF get_domain(cap[p].url) \in UNSUPPORTED_DOMAINS
       THEN AbortWith(p, "fetch", "ScraperError", MSG_NOT_SUPPORTED)
       ELSE \/ /\ cap' = [cap EXCEPT ![p].pc = "denoise",
                                      ![p].html = PageOf(cap[p].url)]
               /\ UNCHANGED <<companies, roles, skills, role_skills, writer, txn,
                              outcome>>
            \/ \E msg \in ScrapeFailures : AbortWith(p, "fetch", "ScraperError", msg)
    /\ UNCHANGED <<scr, events, llm, sk, view, now, files, updates>>

\* Step 2: llm.denoise_job_posting(raw_text)
Denoise(p) ==
    /\ cap[p].pc = "denoise"
    /\ EventLoopFree(p, cap[p].via)
    /\ Enter(p, "denoise")
    /\ \/ /\ cap' = [cap EXCEPT ![p].pc = "extract",
                                ![p].markdown = MarkdownOf(cap[p].url)]
          /\ UNCHANGED <<companies, roles, skills, role_skills, writer, txn, outcome>>
       \/ AbortWith(p, "denoise", "LLMError", MSG_API_CALL_FAILED)
       \/ AbortWith(p, "denoise", "ValueError", MSG_UNSUPPORTED_PROVIDER)
    /\ UNCHANGED <<scr, events, llm, sk, view, now, files, updates>>

\* Step 3: llm.extract_job_data(markdown)
ExtractJobData(p) ==
    /\ cap[p].pc = "extract"
    /\ EventLoopFree(p, cap[p].via)
    /\ \/ /\ Enter(p, "extract")
          /\ AbortWith(p, "extract", "LLMError", MSG_API_CALL_FAILED)
       \/ /\ Enter(p, "extract")
          /\ AbortWith(p, "extract", "ValueError", MSG_UNSUPPORTED_PROVIDER)
       \/ \E response \in Responses :
            LET result == extract_job_data(response)
            IN  IF result.kind # "ok"
                THEN /\ Enter(p, "extract")
                     /\ AbortWith(p, "extract", result.kind,
                                  IF result.field # "" THEN result.field
                                  ELSE result.msg)
                ELSE IF result.data.type = "object"
                THEN /\ Enter(p, "extract")
                     /\ cap' = [cap EXCEPT ![p].pc = "upsert-employer",
                                           ![p].job_data = result.data.job]
                     /\ UNCHANGED <<companies, roles, skills, role_skills, writer,
                                    txn, outcome>>
                ELSE \* job_data.get on a list or a string: step 4 raises at once
                     /\ trace' = [trace EXCEPT
                                    ![p] = @ \o <<"extract", "upsert-employer">>]
                     /\ AbortWith(p, "upsert-employer", "AttributeError",
                                  result.data.type)
    /\ UNCHANGED <<scr, events, llm, sk, view, now, files, updates>>

\* a pipeline that takes the extracted company name as it comes
CompanyNameUnstripped(jd) == OrDefault(jd.company, UNKNOWN_COMPANY)

company_name(jd) ==
    OrDefault(Strip(OrDefault(jd.company, UNKNOWN_COMPANY)), UNKNOWN_COMPANY)

title_of(jd) == OrDefault(Strip(OrDefault(jd.title, UNKNOWN_TITLE)), UNKNOWN_TITLE)

\* Step 4, the first query: the employer by name (ILIKE)
UpsertCompanyLookup(p) ==
    /\ cap[p].pc = "upsert-employer"
    /\ EventLoopFree(p, cap[p].via)
    /\ Enter(p, "upsert-employer")
    /\ LET name == company_name(cap[p].job_data)
           found == {c \in Companies(p) : Like(name, c.name)}
       IN  IF found # {}
           THEN cap' = [cap EXCEPT ![p].pc = "create-posting",
                                   ![p].company = First(found)]
           ELSE cap' = [cap EXCEPT ![p].pc = "resolve-slug"]
    /\ UNCHANGED <<scr, events, llm, sk, view, companies, roles, skills, role_skills, writer, now, files,
                   txn, outcome, updates>>

\* Step 4, the second query, on a miss of the first: the derived slug, which
\* gets the clock as a suffix when an employer holds it. The session has
\* written nothing yet, so each of the two queries reads the rows committed
\* at its own time.
ResolveSlugCollision(p) ==
    /\ cap[p].pc = "resolve-slug"
    /\ EventLoopFree(p, cap[p].via)
    /\ LET slug == create_slug(company_name(cap[p].job_data))
       IN  cap' = [cap EXCEPT
                     ![p].pc = "insert-employer",
                     ![p].slug = IF \E c \in Companies(p) : c.slug = slug
                                 THEN slug \o <<"-">> \o IntToStr(now)
                                 ELSE slug]
    /\ UNCHANGED <<scr, events, llm, sk, view, companies, roles, skills, role_skills, writer, now, files,
                   txn, outcome, trace, updates>>

\* an insert without the flush: the employer object has no id yet when the
\* posting is built from it
UpsertCompanyInsertUnflushed(p) ==
    /\ cap[p].pc = "insert-employer"
    /\ EventLoopFree(p, cap[p].via)
    /\ writer \in {0, p}
    /\ LET name == company_name(cap[p].job_data)
           company == [id |-> NewId(Companies(p)), name |-> name,
                       slug |-> cap[p].slug]
       IN  /\ txn' = [txn EXCEPT ![p].companies = @ \cup {company}]
           /\ writer' = p
           /\ cap' = [cap EXCEPT ![p].pc = "create-posting",
                                 ![p].company = [company EXCEPT !.id = 0]]
           /\ UNCHANGED <<companies, roles, skills, role_skills, outcome>>
    /\ UNCHANGED <<scr, events, llm, sk, view, now, files, trace, updates>>

\* Step 4, the insert: db.add(company); db.flush(). The INSERT takes the
\* write lock, and fails on the unique columns name and slug.
UpsertCompanyInsert(p) ==
    /\ cap[p].pc = "insert-employer"
    /\ EventLoopFree(p, cap[p].via)
    /\ writer \in {0, p}
    /\ LET name == company_name(cap[p].job_data)
           company == [id |-> NewId(Companies(p)), name |-> name,
                       slug |-> cap[p].slug]
       IN  \/ /\ \A c \in Companies(p) : c.name # name /\ c.slug # company.slug
              /\ txn' = [txn EXCEPT ![p].companies = @ \cup {company}]
              /\ writer' = p
              /\ cap' = [cap EXCEPT ![p].pc = "create-posting",
                                    ![p].company = company]
              /\ UNCHANGED <<companies, roles, skills, role_skills, outcome>>
           \/ /\ \E c \in Companies(p) : c.name = name \/ c.slug = company.slug
              /\ Abort(p, "upsert-employer", "IntegrityError")
           \/ Abort(p, "upsert-employer", "OperationalError")
    /\ UNCHANGED <<scr, events, llm, sk, view, now, files, trace, updates>>

\* a roles table without the unique index on url
UrlTakenNever(p, u) == FALSE

\* Column url of roles: unique=True
UrlTaken(p, u) == \E r \in Roles(p) : r.url = u

\* Step 5: the posting with placeholder paths; db.flush() obtains role.id
\* and fails on the unique column url.
CreateRole(p) ==
    /\ cap[p].pc = "create-posting"
    /\ EventLoopFree(p, cap[p].via)
    /\ writer \in {0, p}
    /\ Enter(p, "create-posting")
    /\ LET role == [id |-> NewId(Roles(p)), company_id |-> cap[p].company.id,
                    title |-> title_of(cap[p].job_data), url |-> cap[p].url,
                    raw_html_path |-> PENDING, cleaned_md_path |-> PENDING,
                    status |-> "active"]
       IN  \/ /\ ~UrlTaken(p, role.url)
              /\ txn' = [txn EXCEPT ![p].roles = @ \cup {role}]
              /\ writer' = p
              /\ cap' = [cap EXCEPT ![p].pc = "persist-artifacts",
                                    ![p].role_id = role.id]
              /\ UNCHANGED <<companies, roles, skills, role_skills, outcome>>
           \/ /\ UrlTaken(p, role.url)
              /\ Abort(p, "create-posting", "IntegrityError")
           \/ Abort(p, "create-posting", "OperationalError")
    /\ UNCHANGED <<scr, events, llm, sk, view, now, files, updates>>

\* the artifact paths f"data/jobs/raw/{slug}/{id}.html" and
\* f"data/jobs/cleaned/{slug}/{id}.md", as path segments
RawPath(slug, id) == <<"data", "jobs", "raw", slug, id, ".html">>
CleanedPath(slug, id) == <<"data", "jobs", "cleaned", slug, id, ".md">>

\* _resolve_path: the leading "data/" is replaced by the data root
\* (every path the pipeline builds is relative and starts with "data/")
resolve_path(filepath) == [filepath EXCEPT ![1] = DATA_ROOT]

\* a save_file that writes nothing
SaveFileNever(fs, content, filepath) == fs

\* save_file: write (or overwrite) the file at the resolved path
save_file(fs, content, filepath) ==
    {f \in fs : f.path # resolve_path(filepath)}
        \cup {[path |-> resolve_path(filepath), content |-> content]}

\* Step 6: save the raw HTML, then the Markdown, then set the role's paths
\* (the HTTP handler stores the relative paths, the CLI the resolved ones).
PersistFiles(p) ==
    /\ cap[p].pc = "persist-artifacts"
    /\ EventLoopFree(p, cap[p].via)
    /\ Enter(p, "persist-artifacts")
    /\ LET raw_path == RawPath(cap[p].company.slug, cap[p].role_id)
           cleaned_path == CleanedPath(cap[p].company.slug, cap[p].role_id)
           wrote_raw == save_file(files, cap[p].html, raw_path)
           role == CHOOSE r \in txn[p].roles : r.id = cap[p].role_id
           stored(path) == IF cap[p].via = "cli" THEN resolve_path(path) ELSE path
       IN  \/ /\ files' = save_file(wrote_raw, cap[p].markdown, cleaned_path)
              /\ txn' = [txn EXCEPT ![p].roles = (@ \ {role}) \cup
                           {[role EXCEPT !.raw_html_path = stored(raw_path),
                                         !.cleaned_md_path = stored(cleaned_path)]}]
              /\ cap' = [cap EXCEPT ![p].pc = "link-skills"]
              /\ UNCHANGED <<companies, roles, skills, role_skills, writer, outcome>>
           \/ /\ files' = files
              /\ Abort(p, "persist-artifacts", "OSError")
           \/ /\ files' = wrote_raw
              /\ Abort(p, "persist-artifacts", "OSError")
    /\ UNCHANGED <<scr, events, llm, sk, view, now, updates>>

(***************************************************************************)
(* The skill linker (services/skill_extractor.py).                         *)
(***************************************************************************)
\* get_or_create_skill on the session's skill rows S: the result row and
\* the session's skill rows afterwards
get_or_create_skill(S, name, category) ==
    LET normalized_name == normalize_skill_name(name)
        existing == {s \in S : Like(normalized_name, s.name)}
        skill == [id |-> NewId(S), name |-> normalized_name, category |-> category]
    IN  IF existing # {}
        THEN [skill |-> First(existing), skills |-> S]
        ELSE [skill |-> skill, skills |-> S \cup {skill}]

\* the two loops of link_skills_to_role over <<name, level>> entries:
\* the session's skill rows and the RoleSkill objects added, in order
RECURSIVE LinkLoop(_, _, _, _)
LinkLoop(S, added, role_id, entries) ==
    IF entries = <<>> THEN [skills |-> S, added |-> added]
    ELSE LET skill_name == Head(entries)[1]
             level == Head(entries)[2]
             got == get_or_create_skill(S, skill_name, None)
         IN  IF Strip(skill_name) = <<>>
             THEN LinkLoop(S, added, role_id, Tail(entries))
             ELSE LinkLoop(got.skills,
                           Append(added, [role_id |-> role_id,
                                          skill_id |-> got.skill.id,
                                          requirement_level |-> level]),
                           role_id, Tail(entries))

link_skills_to_role(S, role_id, required_skills, preferred_skills) ==
    LinkLoop(S, <<>>, role_id,
             [i \in 1..Len(required_skills) |-> <<required_skills[i], "required">>]
             \o [i \in 1..Len(preferred_skills) |-> <<preferred_skills[i], "preferred">>])

\* the rows the flush inserts for the added RoleSkill objects
LinkRows(existing, added) ==
    {[id |-> NewId(existing) + i - 1, role_id |-> added[i].role_id,
      skill_id |-> added[i].skill_id,
      requirement_level |-> added[i].requirement_level] : i \in 1..Len(added)}

\* a role_skills table without the uniqueness constraint
LinksUniqueNever(existing, added) == TRUE

\* UniqueConstraint("role_id", "skill_id"): no two links of one pair
LinksUnique(existing, added) ==
    /\ \A i, j \in 1..Len(added) :
         i # j => <<added[i].role_id, added[i].skill_id>>
                    # <<added[j].role_id, added[j].skill_id>>
    /\ \A i \in 1..Len(added) : \A l \in existing :
         <<l.role_id, l.skill_id>> # <<added[i].role_id, added[i].skill_id>>

\* Step 7: link the extracted skills to the role
LinkSkills(p) ==
    /\ cap[p].pc = "link-skills"
    /\ EventLoopFree(p, cap[p].via)
    /\ Enter(p, "link-skills")
    /\ LET jd == cap[p].job_data
           linked == link_skills_to_role(Skills(p), cap[p].role_id,
                                         jd.required_skills, jd.preferred_skills)
       IN  \/ /\ LinksUnique(RoleSkills(p), linked.added)
              /\ txn' = [txn EXCEPT
                           ![p].skills = linked.skills \ skills,
                           ![p].role_skills =
                               @ \cup LinkRows(RoleSkills(p), linked.added)]
              /\ cap' = [cap EXCEPT ![p].pc = "commit"]
              /\ UNCHANGED <<companies, roles, skills, role_skills, writer, outcome>>
           \/ /\ ~LinksUnique(RoleSkills(p), linked.added)
              /\ Abort(p, "link-skills", "IntegrityError")
           \/ Abort(p, "link-skills", "OperationalError")
    /\ UNCHANGED <<scr, events, llm, sk, view, now, files, updates>>

\* db.commit(): the flushed rows become visible to every session
Commit(p) ==
    /\ cap[p].pc = "commit"
    /\ EventLoopFree(p, cap[p].via)
    /\ Enter(p, "commit")
    /\ \/ /\ companies' = companies \cup txn[p].companies
          /\ roles' = roles \cup txn[p].roles
          /\ skills' = skills \cup txn[p].skills
          /\ role_skills' = role_skills \cup txn[p].role_skills
          /\ txn' = [txn EXCEPT ![p] = EmptyTxn]
          /\ writer' = 0
          /\ outcome' = [outcome EXCEPT ![p] =
                [NoOutcome EXCEPT
                   !.status = "success",
                   !.role_id = cap[p].role_id,
                   !.company = cap[p].company.name,
                   !.title = title_of(cap[p].job_data),
                   !.skills_extracted =
                       SkillsCount(txn[p].role_skills, cap[p].role_id),
                   !.http_status = IF cap[p].via = "http" THEN 200 ELSE 0]]
          /\ cap' = [cap EXCEPT ![p] = Returned(cap[p])]
       \/ Abort(p, "commit", "OperationalError")
    /\ UNCHANGED <<scr, events, llm, sk, view, now, files, updates>>

(***************************************************************************)
(* A store that earlier captures have filled.                              *)
(***************************************************************************)
\* Two postings captured over HTTP within one second (now = 0), the second
\* of an employer whose slug collided with the first one's.
URL_SEED_1 == <<"h","t","t","p","s",":","/","/","a",".","i","o","/","s">>
URL_SEED_2 == <<"h","t","t","p","s",":","/","/","a",".","i","o","/","t">>
URL_SEED_3 == <<"h","t","t","p","s",":","/","/","a",".","i","o","/","u">>

SEED_JOB_1 == [company |-> <<"T"," ","c">>, title |-> <<"D","e","v">>,
               required_skills |-> <<<<"g","o">>>>, preferred_skills |-> <<<<"R">>>>]
SEED_JOB_2 == [company |-> <<"T","-","c">>, title |-> <<" ">>,
               required_skills |-> <<<<"g","o","l","a","n","g">>, <<" ">>>>,
               preferred_skills |-> <<>>]
SEED_JOB_3 == [company |-> <<UPPER_E_ACUTE>>, title |-> <<"D","e","v">>,
               required_skills |-> <<>>, preferred_skills |-> <<>>]

\* the rows and files a successful HTTP capture of (url, jd) adds to a store
\* at time t, computed as the pipeline computes them
CaptureInto(st, url, jd, t) ==
    LET name == company_name(jd)
        found == {c \in st.companies : Like(name, c.name)}
        slug == create_slug(name)
        company == IF found # {} THEN First(found)
                   ELSE [id |-> NewId(st.companies), name |-> name,
                         slug |-> IF \E c \in st.companies : c.slug = slug
                                  THEN slug \o <<"-">> \o IntToStr(t) ELSE slug]
        role_id == NewId(st.roles)
        raw_path == RawPath(company.slug, role_id)
        cleaned_path == CleanedPath(company.slug, role_id)
        linked == link_skills_to_role(st.skills, role_id, jd.required_skills,
                                      jd.preferred_skills)
    IN  [companies |-> st.companies \cup {company},
         roles |-> st.roles \cup
                   {[id |-> role_id, company_id |-> company.id,
                     title |-> title_of(jd), url |-> url,
                     raw_html_path |-> raw_path, cleaned_md_path |-> cleaned_path,
                     status |-> "active"]},
         skills |-> linked.skills,
         role_skills |-> st.role_skills \cup LinkRows(st.role_skills, linked.added),
         files |-> save_file(save_file(st.files, PageOf(url), raw_path),
                             MarkdownOf(url), cleaned_path)]

EmptyStore == [companies |-> {}, roles |-> {}, skills |-> {}, role_skills |-> {},
               files |-> {}]

SeedStore ==
    CaptureInto(CaptureInto(CaptureInto(EmptyStore, URL_SEED_1, SEED_JOB_1, 0),
                            URL_SEED_2, SEED_JOB_2, 0),
                URL_SEED_3, SEED_JOB_3, 0)

\* the captures start on the seeded store
SeededInit ==
    /\ companies = SeedStore.companies
    /\ roles = SeedStore.roles
    /\ skills = SeedStore.skills
    /\ role_skills = SeedStore.role_skills
    /\ files = SeedStore.files
    /\ writer = 0
    /\ now = 0
    /\ cap = [p \in Captures |-> InitCap]
    /\ txn = [p \in Captures |-> EmptyTxn]
    /\ outcome = [p \in Captures |-> NoOutcome]
    /\ trace = [p \in Captures |-> <<>>]
    /\ updates = 0

(***************************************************************************)
(* Status update and the clock.                                            *)
(***************************************************************************)
\* what a caller may send as the new status
RequestedStatuses == Statuses \cup {"deleted"}

\* a request schema that takes any string as a status
AnyStatus(value) == TRUE

\* StatusUpdate.status: RoleStatus, validated before the handler runs
IsRoleStatus(value) == value \in Statuses

StatusResponse(role_id, status, http_status) ==
    [pc |-> "status", role_id |-> role_id, status |-> status,
     http_status |-> http_status]

\* PATCH /jobs/{role_id}/status: 422 for a value outside RoleStatus, 404 for
\* an unknown id, else the role's status is set and committed
UpdateJobStatus(role_id, status) ==
    /\ updates < MaxStatusUpdates
    /\ updates' = updates + 1
    /\ IF ~IsRoleStatus(status)
       THEN /\ view' = StatusResponse(role_id, status, 422)
            /\ roles' = roles
       ELSE IF \A role \in roles : role.id # role_id
       THEN /\ view' = StatusResponse(role_id, status, 404)
            /\ roles' = roles
       ELSE /\ writer = 0
            /\ \E role \in roles :
                 /\ role.id = role_id
                 /\ roles' = (roles \ {role}) \cup {[role EXCEPT !.status = status]}
            /\ view' = StatusResponse(role_id, status, 200)
    /\ UNCHANGED <<scr, events, llm, sk, companies, skills, role_skills, writer, now, files, cap, txn,
                   outcome, trace>>

Tick ==
    /\ now < MaxTime
    /\ now' = now + 1
    /\ UNCHANGED <<scr, events, llm, sk, view, companies, roles, skills, role_skills, writer, files, cap, txn,
                   outcome, trace, updates>>

(***************************************************************************)
(* SkillExtractorService: calls on one session, and normalize_skill_name.  *)
(***************************************************************************)
\* raw skill names
NAME_PYTHON_PADDED == <<" "," ","p","y","t","h","o","n"," "," ">>
NAME_REACT_JS_UPPER == <<"R","E","A","C","T",".","J","S">>
NAME_TERRAFORM == <<"T","e","r","r","a","f","o","r","m">>
NAME_GO == <<"g","o">>
NAME_GO_CAPITAL == <<"G","o">>
NAME_GOLANG == <<"g","o","l","a","n","g">>
NAME_AB == <<"a","b">>
NAME_A_ANY == <<"A","_">>
NAME_BLANK == <<" ">>
NAME_EMPTY == <<>>
NAME_E_ACUTE_CAPITAL == <<UPPER_E_ACUTE>>
NAME_E_ACUTE_SMALL == <<LOWER_E_ACUTE>>

\* the names get_or_create_skill is called with
SkillNames == {NAME_PYTHON_PADDED, NAME_GO, NAME_GO_CAPITAL, NAME_GOLANG, NAME_AB,
               NAME_A_ANY, NAME_E_ACUTE_CAPITAL, NAME_E_ACUTE_SMALL}

CATEGORY_TOOL == <<"t","o","o","l">>
Categories == {None, CATEGORY_TOOL}

\* the lists link_skills_to_role is called with
SkillLists == {<<>>, <<NAME_GO>>, <<NAME_GO_CAPITAL, NAME_GOLANG>>,
               <<NAME_BLANK, NAME_TERRAFORM>>, <<NAME_EMPTY>>,
               <<NAME_AB, NAME_GO>>}

\* the names normalize_skill_name is called with: a name, as it is or inside
\* white space
NormalizeCores == {
    <<"p","y","t","h","o","n">>,
    <<"P","y","t","h","o","n">>,
    <<"P","Y","T","H","O","N">>,
    <<"r","e","a","c","t",".","j","s">>,
    <<"R","E","A","C","T",".","J","S">>,
    <<"R","e","a","c","t","J","S">>,
    <<"T","e","r","r","a","f","o","r","m">>,
    <<"t","e","r","r","a","f","o","r","m">>,
    <<"g","o">>,
    <<"G","O">>,
    <<"g","o","l","a","n","g">>,
    <<"n","o","d","e",".","j","s">>,
    <<"c","+","+">>,
    <<"C","#">>,
    <<"a","p","a","c","h","e"," ","k","a","f","k","a">>,
    <<"A","p","a","c","h","e"," "," ","K","a","f","k","a">>,
    <<"R","E","S","T"," ","A","P","I","s">>,
    <<"r","e","s","t">>,
    <<>>,
    NAME_E_ACUTE_CAPITAL }
Paddings == {<<>>, <<" ">>, <<" ", " ">>, <<"\t">>, <<"\n">>}
\* the canonical forms of the alias table
CanonicalForms == {e[2] : e \in KNOWN_CAPITALIZATIONS}
NormalizeInputs ==
    {l \o core \o r : l \in Paddings, core \in NormalizeCores, r \in Paddings}
    \cup CanonicalForms

\* one call of the service, as the caller sees it
Call(op, name, category, required, preferred, role_id, result, error) ==
    [op |-> op, name |-> name, category |-> category, required |-> required,
     preferred |-> preferred, role_id |-> role_id, result |-> result,
     error |-> error]

SkIdle == [pc |-> "idle", skills |-> {}, role_skills |-> {}, log |-> <<>>,
           name |-> <<>>, normalized |-> <<>>, again |-> <<>>]

\* a session on an empty skill table
SkInit == sk = [SkIdle EXCEPT !.pc = "open"]

\* the link calls made so far
LinkCalls == {i \in 1..Len(sk.log) : sk.log[i].op = "link_skills_to_role"}

\* get_or_create_skill(name, category) on the session
GetOrCreateSkill ==
    /\ sk.pc = "open"
    /\ Len(sk.log) < MaxCalls
    /\ \E name \in SkillNames, category \in Categories :
         LET got == get_or_create_skill(sk.skills, name, category)
         IN  sk' = [sk EXCEPT
                      !.skills = got.skills,
                      !.log = Append(@, Call("get_or_create_skill", name, category,
                                             <<>>, <<>>, 0, got.skill.id, "none"))]
    /\ UNCHANGED <<capVars, scr, events, llm, view>>

\* link_skills_to_role(role.id, required_skills, preferred_skills) for a new
\* role: the loops, then the flush, which inserts the links or fails on the
\* uniqueness constraint and takes the transaction with it
LinkSkillsToRole ==
    /\ sk.pc = "open"
    /\ Len(sk.log) < MaxCalls
    /\ \E required \in SkillLists, preferred \in SkillLists :
         LET role_id == Cardinality(LinkCalls) + 1
             linked == link_skills_to_role(sk.skills, role_id, required, preferred)
             total_linked == Len(linked.added)
         IN  IF LinksUnique(sk.role_skills, linked.added)
             THEN sk' = [sk EXCEPT
                           !.skills = linked.skills,
                           !.role_skills = @ \cup LinkRows(sk.role_skills, linked.added),
                           !.log = Append(@, Call("link_skills_to_role", <<>>, None,
                                                  required, preferred, role_id,
                                                  total_linked, "none"))]
             ELSE sk' = [sk EXCEPT
                           !.pc = "failed",
                           !.skills = {},
                           !.role_skills = {},
                           !.log = Append(@, Call("link_skills_to_role", <<>>, None,
                                                  required, preferred, role_id,
                                                  0, "IntegrityError"))]
    /\ UNCHANGED <<capVars, scr, events, llm, view>>

\* rows in the order of their skill
RECURSIVE BySkillId(_)
BySkillId(rows) ==
    IF rows = {} THEN <<>>
    ELSE LET r == CHOOSE x \in rows : \A y \in rows :
                      x.skill_id < y.skill_id \/ (x.skill_id = y.skill_id /\ x.id <= y.id)
         IN  <<r>> \o BySkillId(rows \ {r})

\* Query.all() without ORDER BY on role_skills filtered by role_id: SQLite
\* walks the rows of the role in rowid order
RECURSIVE ByRowid(_)
ByRowid(rows) ==
    IF rows = {} THEN <<>>
    ELSE <<First(rows)>> \o ByRowid(rows \ {First(rows)})

\* get_skills_for_role: the join of the role's links with their skills, split
\* by requirement level into the names of the required and the other links
get_skills_for_role(RS, S, role_id) ==
    LET joined == ByRowid({l \in RS : l.role_id = role_id
                                      /\ \E s \in S : s.id = l.skill_id})
        name(l) == (CHOOSE s \in S : s.id = l.skill_id).name
        required == SelectSeq(joined, LAMBDA l : l.requirement_level = "required")
        preferred == SelectSeq(joined, LAMBDA l : l.requirement_level # "required")
    IN  [required |-> [i \in 1..Len(required) |-> name(required[i])],
         preferred |-> [i \in 1..Len(preferred) |-> name(preferred[i])]]

\* get_skills_for_role(role_id) on the session; the call is logged with the
\* two lists it returned
GetSkillsForRole ==
    /\ sk.pc = "open"
    /\ Len(sk.log) < MaxCalls
    /\ \E role_id \in 1..MaxCalls :
         LET got == get_skills_for_role(sk.role_skills, sk.skills, role_id)
         IN  sk' = [sk EXCEPT
                      !.log = Append(@, Call("get_skills_for_role", <<>>, None,
                                             got.required, got.preferred, role_id,
                                             Len(got.required) + Len(got.preferred),
                                             "none"))]
    /\ UNCHANGED <<capVars, scr, events, llm, view>>

\* a call of normalize_skill_name
NormalizeInit ==
    \E name \in NormalizeInputs : sk = [SkIdle EXCEPT !.pc = "normalize", !.name = name]

NormalizeSkillName ==
    /\ sk.pc = "normalize"
    /\ sk' = [sk EXCEPT !.pc = "normalized",
                        !.normalized = normalize_skill_name(sk.name)]
    /\ UNCHANGED <<capVars, scr, events, llm, view>>

\* a second call, on the result of the first
NormalizeAgain ==
    /\ sk.pc = "normalized"
    /\ sk' = [sk EXCEPT !.pc = "normalized-again",
                        !.again = normalize_skill_name(sk.normalized)]
    /\ UNCHANGED <<capVars, scr, events, llm, view>>


(***************************************************************************)
(* ScraperService.scrape, one call.                                        *)
(***************************************************************************)
\* tags whose content the text extraction drops
DECOMPOSED_TAGS == {"script", "style", "noscript", "header", "footer", "nav"}

RECURSIVE JoinLines(_)
JoinLines(lines) ==
    IF lines = <<>> THEN <<>>
    ELSE IF Len(lines) = 1 THEN lines[1]
    ELSE lines[1] \o <<"\n">> \o JoinLines(Tail(lines))

\* A document is a sequence of elements [tag, text]. The extracted text is
\* the stripped, non-empty text of the elements that are kept, one per line.
extract_text_from_html(html) ==
    LET kept == SelectSeq(html, LAMBDA e : e.tag \notin DECOMPOSED_TAGS)
        stripped == [i \in 1..Len(kept) |-> Strip(kept[i].text)]
        NonEmpty(l) == l # <<>>
    IN  JoinLines(SelectSeq(stripped, NonEmpty))

Element(tag, text) == [tag |-> tag, text |-> text]

\* the documents a server or the browser may deliver
PAGE_RICH == <<Element("p", <<"J","o","b"," ","a","d">>)>>
PAGE_TWO_LINES == <<Element("h1", <<"D","e","v">>), Element("p", <<" ","G","o"," ">>)>>
PAGE_GATED == <<Element("script", <<"v","a","r"," ","x"," ","="," ","1",";">>), Element("p", <<"H","i">>)>>
PAGE_CHROME_ONLY == <<Element("nav", <<"H","o","m","e">>), Element("p", <<" "," ">>)>>
PAGE_EMPTY == <<>>
Pages == {PAGE_RICH, PAGE_TWO_LINES, PAGE_GATED, PAGE_CHROME_ONLY, PAGE_EMPTY}

\* the scraping configurations: retry_attempts, rate_limit_delay_seconds and
\* min_content_chars (scaled to the length of the documents above)
RetryChoices == 0..MaxRetry
DelayChoices == {0, 2}
MinContentChoices == {0, 6, 7}
StatusCodes == {429, 500}

\* what a call ends with: the returned document or the exception raised
NoResult == [kind |-> "none", html |-> <<>>, msg |-> "", attempts |-> 0,
             cause |-> "None"]
Returns(html) == [NoResult EXCEPT !.kind = "html", !.html = html]
Raises(kind, msg) == [NoResult EXCEPT !.kind = kind, !.msg = msg]
RaisesAfter(msg, attempts, cause) ==
    [NoResult EXCEPT !.kind = "ScraperError", !.msg = msg,
                     !.attempts = attempts, !.cause = cause]

\* an effect of the call, in the order the effects happen
Ev(op, secs, url) == [op |-> op, secs |-> secs, url |-> url]
Sleep(secs) == Ev("sleep", secs, <<>>)

ScrIdle == [pc |-> "idle", url |-> <<>>, retry_attempts |-> 0,
            rate_limit_delay_seconds |-> 0, min_content_chars |-> 0,
            playwright_installed |-> FALSE, attempt |-> 0,
            last_error |-> "None", fetched |-> FALSE, html |-> <<>>,
            fetch_error |-> NoResult, playwright_result |-> NoResult,
            result |-> NoResult, goto_status |-> 0]

ScrInit ==
    /\ \E url \in ScrapeUrls, retry \in RetryChoices, delay \in DelayChoices,
          min_chars \in MinContentChoices, installed \in BOOLEAN :
         scr = [ScrIdle EXCEPT !.pc = "start", !.url = url,
                               !.retry_attempts = retry,
                               !.rate_limit_delay_seconds = delay,
                               !.min_content_chars = min_chars,
                               !.playwright_installed = installed]
    /\ events = <<>>

\* the two tests of scrape on the URLs it is called with: is_valid_url(url),
\* and get_domain(url) in UNSUPPORTED_DOMAINS
ValidUrls == {u \in ScrapeUrls : is_valid_url(u)}
RefusedUrls == {u \in ScrapeUrls : get_domain(u) \in UNSUPPORTED_DOMAINS}

\* a scrape that goes to the browser path first
ScrapeBrowserFirst ==
    /\ scr.pc = "start"
    /\ scr' = [scr EXCEPT !.pc = "playwright-check"]
    /\ events' = Append(events, Sleep(scr.rate_limit_delay_seconds))
    /\ UNCHANGED <<capVars, llm, sk, view>>

\* scrape up to its first await: validation, the denylist, the rate-limit sleep
ScrapeStart ==
    /\ scr.pc = "start"
    /\ IF scr.url \notin ValidUrls
       THEN /\ scr' = [scr EXCEPT !.pc = "done",
                                  !.result = Raises("ValueError", MSG_INVALID_URL)]
            /\ events' = events
       ELSE IF scr.url \in RefusedUrls
       THEN /\ scr' = [scr EXCEPT !.pc = "done",
                                  !.result = Raises("ScraperError", MSG_NOT_SUPPORTED)]
            /\ events' = events
       ELSE /\ scr' = [scr EXCEPT !.pc = "httpx", !.attempt = 0,
                                  !.last_error = "None"]
            /\ events' = Append(events, Sleep(scr.rate_limit_delay_seconds))
    /\ UNCHANGED <<capVars, llm, sk, view>>

\* _scrape_with_httpx, one attempt: the response is a success
HttpxOk ==
    /\ scr.pc = "httpx"
    /\ scr.attempt < scr.retry_attempts
    /\ \E page \in Pages :
         scr' = [scr EXCEPT !.pc = "measure", !.fetched = TRUE, !.html = page]
    /\ events' = Append(events, Ev("http_get", 0, scr.url))
    /\ UNCHANGED <<capVars, llm, sk, view>>

\* one attempt: raise_for_status raises; only status 429 waits, doubling
HttpxStatusError ==
    /\ scr.pc = "httpx"
    /\ scr.attempt < scr.retry_attempts
    /\ \E status \in StatusCodes :
         /\ scr' = [scr EXCEPT !.attempt = @ + 1,
                               !.last_error = IF status = 429
                                              THEN "HTTPStatusError 429"
                                              ELSE "HTTPStatusError 500"]
         /\ events' =
              IF status = 429
              THEN events \o <<Ev("http_get", 0, scr.url),
                               Sleep(scr.rate_limit_delay_seconds * (2 ^ scr.attempt))>>
              ELSE Append(events, Ev("http_get", 0, scr.url))
    /\ UNCHANGED <<capVars, llm, sk, view>>

\* one attempt: the request fails or times out; waits unless it was the last
HttpxRequestError ==
    /\ scr.pc = "httpx"
    /\ scr.attempt < scr.retry_attempts
    /\ \E cause \in {"RequestError", "TimeoutException"} :
         scr' = [scr EXCEPT !.attempt = @ + 1, !.last_error = cause]
    /\ events' =
         IF scr.attempt < scr.retry_attempts - 1
         THEN events \o <<Ev("http_get", 0, scr.url),
                          Sleep(scr.rate_limit_delay_seconds)>>
         ELSE Append(events, Ev("http_get", 0, scr.url))
    /\ UNCHANGED <<capVars, llm, sk, view>>

\* a scrape that lets the error of the lightweight path reach its caller
HttpxGiveUpRaises ==
    /\ scr.pc = "httpx"
    /\ scr.attempt >= scr.retry_attempts
    /\ LET error == RaisesAfter(MSG_HTTPX_FAILED, scr.retry_attempts, scr.last_error)
       IN  scr' = [scr EXCEPT !.pc = "done", !.fetch_error = error,
                              !.result = error]
    /\ events' = events
    /\ UNCHANGED <<capVars, llm, sk, view>>

\* the attempts are used up: _scrape_with_httpx raises ScraperError, which
\* scrape catches and drops
HttpxGiveUp ==
    /\ scr.pc = "httpx"
    /\ scr.attempt >= scr.retry_attempts
    /\ scr' = [scr EXCEPT
                 !.pc = "playwright-check",
                 !.fetch_error = RaisesAfter(MSG_HTTPX_FAILED, scr.retry_attempts,
                                             scr.last_error)]
    /\ events' = events
    /\ UNCHANGED <<capVars, llm, sk, view>>

\* a threshold the extracted text has to exceed
MeasureContentStrict ==
    /\ scr.pc = "measure"
    /\ LET text == extract_text_from_html(scr.html)
       IN  IF Len(text) > scr.min_content_chars
           THEN scr' = [scr EXCEPT !.pc = "done", !.result = Returns(scr.html)]
           ELSE scr' = [scr EXCEPT !.pc = "playwright-check"]
    /\ events' = events
    /\ UNCHANGED <<capVars, llm, sk, view>>

\* the fetched document is returned when its text reaches the threshold
MeasureContent ==
    /\ scr.pc = "measure"
    /\ LET text == extract_text_from_html(scr.html)
       IN  IF Len(text) >= scr.min_content_chars
           THEN scr' = [scr EXCEPT !.pc = "done", !.result = Returns(scr.html)]
           ELSE scr' = [scr EXCEPT !.pc = "playwright-check"]
    /\ events' = events
    /\ UNCHANGED <<capVars, llm, sk, view>>

\* a check that takes the browser path when the package is missing
PlaywrightCheckInverted ==
    /\ scr.pc = "playwright-check"
    /\ IF scr.playwright_installed
       THEN /\ scr' = [scr EXCEPT
                         !.pc = "done",
                         !.result = Raises("ScraperError", MSG_THIN_NO_PLAYWRIGHT)]
            /\ events' = Append(events, Ev("playwright_available", 0, <<>>))
       ELSE /\ scr' = [scr EXCEPT
                         !.pc = "done",
                         !.playwright_result =
                             Raises("ScraperError", MSG_PLAYWRIGHT_IMPORT),
                         !.result = Raises("ScraperError", MSG_PLAYWRIGHT_IMPORT)]
            /\ events' = events \o <<Ev("playwright_available", 0, <<>>),
                                     Ev("_scrape_with_playwright", 0, scr.url)>>
    /\ UNCHANGED <<capVars, llm, sk, view>>

\* playwright_available(): without the package scrape raises; with it scrape
\* calls _scrape_with_playwright, whose import succeeds
PlaywrightCheck ==
    /\ scr.pc = "playwright-check"
    /\ IF ~scr.playwright_installed
       THEN /\ scr' = [scr EXCEPT
                         !.pc = "done",
                         !.result = Raises("ScraperError", MSG_THIN_NO_PLAYWRIGHT)]
            /\ events' = Append(events, Ev("playwright_available", 0, <<>>))
       ELSE /\ scr' = [scr EXCEPT !.pc = "playwright", !.attempt = 0,
                                  !.last_error = "None"]
            /\ events' = events \o <<Ev("playwright_available", 0, <<>>),
                                     Ev("_scrape_with_playwright", 0, scr.url)>>
    /\ UNCHANGED <<capVars, llm, sk, view>>

\* the events of a failed browser attempt, with the wait before the next one
AfterFailure(evs) ==
    IF scr.attempt < scr.retry_attempts - 1
    THEN events \o evs \o <<Sleep(scr.rate_limit_delay_seconds)>>
    ELSE events \o evs

\* _scrape_with_playwright, one attempt: chromium.launch returns a browser
PlaywrightLaunch ==
    /\ scr.pc = "playwright"
    /\ scr.attempt < scr.retry_attempts
    /\ scr' = [scr EXCEPT !.pc = "page"]
    /\ events' = Append(events, Ev("launch", 0, <<>>))
    /\ UNCHANGED <<capVars, llm, sk, view>>

\* one attempt: chromium.launch raises, so there is no browser to close
PlaywrightLaunchError ==
    /\ scr.pc = "playwright"
    /\ scr.attempt < scr.retry_attempts
    /\ scr' = [scr EXCEPT !.attempt = @ + 1, !.last_error = "launch failed"]
    /\ events' = AfterFailure(<<Ev("launch_error", 0, <<>>)>>)
    /\ UNCHANGED <<capVars, llm, sk, view>>

\* the status of the response a navigation may get
GotoStatuses == {200} \cup StatusCodes

\* the navigation gets a response, of whatever status (page.goto raises for
\* no HTTP status), and the page renders: the finally clause closes the
\* browser, the document is returned
PlaywrightOk ==
    /\ scr.pc = "page"
    /\ \E page \in Pages, status \in GotoStatuses :
         scr' = [scr EXCEPT !.pc = "done", !.playwright_result = Returns(page),
                            !.result = Returns(page), !.goto_status = status]
    /\ events' = events \o <<Ev("goto", 0, scr.url), Ev("close", 0, <<>>)>>
    /\ UNCHANGED <<capVars, llm, sk, view>>

\* a page operation that raises with the browser left open
PlaywrightPageErrorLeaks ==
    /\ scr.pc = "page"
    /\ scr' = [scr EXCEPT !.pc = "playwright", !.attempt = @ + 1,
                          !.last_error = "TimeoutError"]
    /\ events' = AfterFailure(<<Ev("goto", 0, scr.url)>>)
    /\ UNCHANGED <<capVars, llm, sk, view>>

\* a page operation raises: the finally clause closes the browser, then the
\* except clause records the error and waits unless this was the last attempt
PlaywrightPageError ==
    /\ scr.pc = "page"
    /\ scr' = [scr EXCEPT !.pc = "playwright", !.attempt = @ + 1,
                          !.last_error = "TimeoutError"]
    /\ events' = AfterFailure(<<Ev("goto", 0, scr.url), Ev("close", 0, <<>>)>>)
    /\ UNCHANGED <<capVars, llm, sk, view>>

\* the attempts are used up: the ScraperError of the browser path leaves scrape
PlaywrightGiveUp ==
    /\ scr.pc = "playwright"
    /\ scr.attempt >= scr.retry_attempts
    /\ LET error == RaisesAfter(MSG_PLAYWRIGHT_FAILED, scr.retry_attempts,
                                scr.last_error)
       IN  scr' = [scr EXCEPT !.pc = "done", !.playwright_result = error,
                              !.result = error]
    /\ events' = events
    /\ UNCHANGED <<capVars, llm, sk, view>>

(***************************************************************************)
(* The two state machines.                                                 *)
(***************************************************************************)
(***************************************************************************)
(* The salary range of a posting (routers/jobs.py, _build_salary_range).   *)
(***************************************************************************)
USD == <<"U","S","D">>
EUR == <<"E","U","R">>
USD_LOWER == <<"u","s","d">>

\* the salary columns of a posting: a nullable integer is <<>> for null and
\* <<n>> for the integer n; the currency is a string that is never null
\* (capture stores "USD" when the extract names none)
NoSalary == <<>>
Salaries == {NoSalary, <<0>>, <<1>>, <<999>>, <<1000>>, <<120000>>, <<180000>>}
Currencies == {USD, USD_LOWER, EUR}
SalaryRows == [salary_min : Salaries, salary_max : Salaries,
               salary_currency : Currencies]

\* str(n) for a natural number
RECURSIVE DigitsOf(_)
DigitsOf(n) ==
    IF n < 10 THEN <<Digits[n + 1]>>
    ELSE Append(DigitsOf(n \div 10), Digits[(n % 10) + 1])

\* the format f"{n:,}": the digits in groups of three, separated by commas
RECURSIVE Grouped(_)
Grouped(d) ==
    IF Len(d) <= 3 THEN d
    ELSE Grouped(SubSeq(d, 1, Len(d) - 3)) \o <<",">> \o SubSeq(d, Len(d) - 2, Len(d))

Thousands(x) == Grouped(DigitsOf(x[1]))

\* Python's truth value of an optional integer: None and 0 are false
Truthy(x) == x # NoSalary /\ x[1] # 0

build_salary_range(role) ==
    LET currency == OrDefault(role.salary_currency, USD)
        symbol == IF currency = USD THEN <<"$">> ELSE <<>>
    IN  IF ~Truthy(role.salary_min) /\ ~Truthy(role.salary_max) THEN None
        ELSE IF Truthy(role.salary_min) /\ Truthy(role.salary_max)
        THEN symbol \o Thousands(role.salary_min) \o <<" ","-"," ">>
             \o symbol \o Thousands(role.salary_max) \o <<" ">> \o currency
        ELSE IF Truthy(role.salary_min)
        THEN symbol \o Thousands(role.salary_min) \o <<"+"," ">> \o currency
        ELSE <<"U","p"," ","t","o"," ">> \o symbol \o Thousands(role.salary_max)
             \o <<" ">> \o currency

NoSalaryRow == [salary_min |-> NoSalary, salary_max |-> NoSalary,
                salary_currency |-> USD]
ViewIdle == [pc |-> "idle", role |-> NoSalaryRow, salary_range |-> None]

ViewInit ==
    \E role \in SalaryRows : view = [pc |-> "start", role |-> role, salary_range |-> None]

\* one posting of a job list or status response: salary_range is built
BuildSalaryRange ==
    /\ view.pc = "start"
    /\ view' = [view EXCEPT !.pc = "done",
                            !.salary_range = build_salary_range(view.role)]
    /\ UNCHANGED <<capVars, scr, events, llm, sk>>

vars == <<companies, roles, skills, role_skills, writer, now, files,
          cap, txn, outcome, trace, updates, scr, events, llm, sk, view>>

Init == CapInit /\ scr = ScrIdle /\ events = <<>> /\ llm = LLMIdle /\ sk = SkIdle /\ view = ViewIdle

Next ==
    \/ \E p \in Captures :
         \/ RejectRequest(p)
         \/ CheckDuplicate(p)
         \/ Scrape(p)
         \/ Denoise(p)
         \/ ExtractJobData(p)
         \/ UpsertCompanyLookup(p)
         \/ ResolveSlugCollision(p)
         \/ UpsertCompanyInsert(p)
         \/ CreateRole(p)
         \/ PersistFiles(p)
         \/ LinkSkills(p)
         \/ Commit(p)
    \/ \E role \in roles, status \in Statuses :
         UpdateJobStatus(role.id, status)
    \/ Tick

Spec == Init /\ [][Next]_vars

InitScrape == CapInit /\ ScrInit /\ llm = LLMIdle /\ sk = SkIdle /\ view = ViewIdle

NextScrape ==
    \/ ScrapeStart
    \/ HttpxOk
    \/ HttpxStatusError
    \/ HttpxRequestError
    \/ HttpxGiveUp
    \/ MeasureContent
    \/ PlaywrightCheck
    \/ PlaywrightLaunch
    \/ PlaywrightLaunchError
    \/ PlaywrightOk
    \/ PlaywrightPageError
    \/ PlaywrightGiveUp

SpecScrape == InitScrape /\ [][NextScrape]_vars

\* Every step of scrape is an awaited operation that ends: the request and
\* the navigation carry config.timeout_seconds, asyncio.sleep ends after its
\* delay, and the event loop resumes the coroutine. So a step that is
\* enabled is taken.
SpecScrapeFair == SpecScrape /\ WF_vars(NextScrape)

InitSeeded == SeededInit /\ scr = ScrIdle /\ events = <<>> /\ llm = LLMIdle /\ sk = SkIdle /\ view = ViewIdle

\* the captures and the clock, without status updates
NextSeeded ==
    \/ \E p \in Captures :
         \/ RejectRequest(p)
         \/ CheckDuplicate(p)
         \/ Scrape(p)
         \/ Denoise(p)
         \/ ExtractJobData(p)
         \/ UpsertCompanyLookup(p)
         \/ ResolveSlugCollision(p)
         \/ UpsertCompanyInsert(p)
         \/ CreateRole(p)
         \/ PersistFiles(p)
         \/ LinkSkills(p)
         \/ Commit(p)
    \/ Tick

SpecSeeded == InitSeeded /\ [][NextSeeded]_vars

\* one capture and the status updates, with every kind of request, on the
\* filled store
RequestedIds == 1..(Cardinality(SeedStore.roles) + 2)

NextStatus ==
    \/ RejectRequest(1)
    \/ CheckDuplicate(1)
    \/ Scrape(1)
    \/ Denoise(1)
    \/ ExtractJobData(1)
    \/ UpsertCompanyLookup(1)
    \/ ResolveSlugCollision(1)
    \/ UpsertCompanyInsert(1)
    \/ CreateRole(1)
    \/ PersistFiles(1)
    \/ LinkSkills(1)
    \/ Commit(1)
    \/ \E role_id \in RequestedIds, status \in RequestedStatuses :
         UpdateJobStatus(role_id, status)

SpecStatus == InitSeeded /\ [][NextStatus]_vars

InitSalary ==
    CapInit /\ scr = ScrIdle /\ events = <<>> /\ llm = LLMIdle /\ sk = SkIdle /\ ViewInit

NextSalary == BuildSalaryRange

SpecSalary == InitSalary /\ [][NextSalary]_vars

InitSkills == CapInit /\ scr = ScrIdle /\ events = <<>> /\ llm = LLMIdle /\ SkInit /\ view = ViewIdle

NextSkills == GetOrCreateSkill \/ LinkSkillsToRole \/ GetSkillsForRole

SpecSkills == InitSkills /\ [][NextSkills]_vars

InitNormalize ==
    CapInit /\ scr = ScrIdle /\ events = <<>> /\ llm = LLMIdle /\ NormalizeInit
    /\ view = ViewIdle

NextNormalize == NormalizeSkillName \/ NormalizeAgain

SpecNormalize == InitNormalize /\ [][NextNormalize]_vars

InitLLM == CapInit /\ scr = ScrIdle /\ events = <<>> /\ LLMInit /\ sk = SkIdle /\ view = ViewIdle

NextLLM ==
    \/ LLMUnsupportedProvider
    \/ LLMTransportError
    \/ LLMComplete
    \/ LLMParse

SpecLLM == InitLLM /\ [][NextLLM]_vars

(***************************************************************************)
(* Properties of the capture pipeline.                                     *)
(***************************************************************************)
Store == <<companies, roles, skills, role_skills>>

\* capture p takes its duplicate-check step
Checks(p) == cap[p].pc = "check-duplicate" /\ cap'[p].pc # "check-duplicate"

\* capture p ends in this step
Ends(p) == outcome[p].status = "none" /\ outcome'[p].status # "none"

\* C1: idempotence of capture. Once a posting with URL u is committed, a
\* capture of u that runs its duplicate check returns already_exists with
\* that posting's id, and the four tables are the same before and after it.
C1_Idempotence ==
    [][\A p \in Captures :
         Checks(p) /\ (\E r \in roles : r.url = cap'[p].url)
         => /\ outcome'[p].status = "already_exists"
            /\ \A r \in roles : r.url = cap'[p].url => outcome'[p].role_id = r.id
            /\ Store' = Store]_vars

C1_Witness ==
    \E p, q \in Captures :
        /\ outcome[p].status = "success"
        /\ outcome[q].status = "already_exists"
        /\ outcome[q].role_id = outcome[p].role_id
        /\ cap[q].url = cap[p].url

\* C2: atomic capture. The step in which an invocation fails, at whatever
\* stage, leaves the committed tables as they were and discards every row
\* the invocation had flushed; the committed tables change only in the step
\* in which an invocation succeeds (or a status update commits), so no row
\* of a failed invocation is ever committed.
C2_Atomic ==
    [][/\ \A p \in Captures :
            Ends(p) /\ outcome'[p].status = "failed"
            => Store' = Store /\ txn'[p] = EmptyTxn /\ writer' # p
       /\ Store' # Store
            => \/ \E p \in Captures :
                    /\ Ends(p) /\ outcome'[p].status = "success"
                    /\ companies' = companies \cup txn[p].companies
                    /\ roles' = roles \cup txn[p].roles
                    /\ skills' = skills \cup txn[p].skills
                    /\ role_skills' = role_skills \cup txn[p].role_skills
               \/ updates' = updates + 1]_vars

C2_Witness ==
    \E p \in Captures :
        /\ outcome[p].status = "failed"
        /\ outcome[p].stage = "commit"
        /\ txn[p] = EmptyTxn
        /\ roles = {}

\* the captures of URL u that have passed their duplicate check
CapturesOf(u) == {p \in Captures : cap[p].pc # "check-duplicate" /\ cap[p].url = u}

\* capture p failed on a uniqueness constraint at the given stage
FailedUnique(p, stage) ==
    /\ outcome[p].status = "failed"
    /\ outcome[p].error = "IntegrityError"
    /\ outcome[p].stage = stage

\* capture p neither failed at a stage of its own (fetch, model call,
\* artifact write, skill linking, store I/O) nor is still running
RanToDecision(p) ==
    \/ outcome[p].status \in {"success", "already_exists"}
    \/ FailedUnique(p, "create-posting")
    \/ FailedUnique(p, "upsert-employer")

\* C3 as stated: of the captures of one URL that ran to a decision, exactly
\* one succeeds and each other one returns already_exists or fails on the
\* URL uniqueness constraint.
C3_AsStated ==
    \A u \in Urls :
        (CapturesOf(u) # {} /\ \A p \in CapturesOf(u) : RanToDecision(p))
        => /\ Cardinality({p \in CapturesOf(u) : outcome[p].status = "success"}) = 1
           /\ \A p \in CapturesOf(u) :
                \/ outcome[p].status \in {"success", "already_exists"}
                \/ FailedUnique(p, "create-posting")

\* C3, amended: at most one posting per URL is ever committed and at most
\* one capture of a URL succeeds; a capture returns already_exists or fails
\* on the URL uniqueness constraint only when a posting with its URL is
\* committed; and when every capture of a URL ran to a decision and none
\* failed on an employer uniqueness constraint (name or slug, hit when the
\* employer insert comes first), exactly one of them succeeded.
C3_OnePostingPerUrl ==
    \A u \in Urls :
        /\ Cardinality({r \in roles : r.url = u}) <= 1
        /\ Cardinality({p \in CapturesOf(u) : outcome[p].status = "success"}) <= 1
        /\ \A p \in CapturesOf(u) :
             (outcome[p].status = "already_exists" \/ FailedUnique(p, "create-posting"))
             => \E r \in roles : r.url = u
        /\ (/\ CapturesOf(u) # {}
            /\ \A p \in CapturesOf(u) :
                 RanToDecision(p) /\ ~FailedUnique(p, "upsert-employer"))
           => Cardinality({p \in CapturesOf(u) : outcome[p].status = "success"}) = 1

C3_Witness ==
    \E p, q \in Captures :
        /\ cap[p].url = cap[q].url
        /\ outcome[p].status = "success"
        /\ FailedUnique(q, "create-posting")

\* sequence s is a prefix of sequence t
IsPrefix(s, t) == Len(s) <= Len(t) /\ \A i \in 1..Len(s) : s[i] = t[i]

\* C4: the stages of one invocation run in the fixed order, each only after
\* every earlier one succeeded; a failed stage is the last one executed; and
\* no row is flushed and no artifact written before extract has succeeded.
C4_StageOrder ==
    /\ [](\A p \in Captures :
            /\ IsPrefix(trace[p], Stages)
            /\ outcome[p].status = "none" /\ cap[p].pc \notin {"resolve-slug", "insert-employer"}
                 => cap[p].pc = Stages[Len(trace[p]) + 1]
            /\ cap[p].pc \in {"resolve-slug", "insert-employer"}
                 => trace[p][Len(trace[p])] = "upsert-employer"
            /\ outcome[p].status = "failed" => outcome[p].stage = trace[p][Len(trace[p])]
            /\ outcome[p].status = "success" => trace[p] = Stages
            /\ txn[p] # EmptyTxn => Len(trace[p]) >= 5)
    /\ [][/\ \A p \in Captures : outcome[p].status # "none" => trace'[p] = trace[p]
          /\ files' # files
               => \E p \in Captures :
                    /\ trace'[p] = Append(trace[p], "persist-artifacts")
                    /\ Len(trace[p]) = 6]_vars

C4_Witness ==
    \E p \in Captures : trace[p] = Stages /\ outcome[p].status = "success"

\* C5: a duplicate check that finds the posting ends the invocation at once:
\* no later stage runs, no artifact is written, no row is flushed, every
\* committed row (the posting's status included) stays as it is, and the
\* summary carries the posting's employer name, title and number of links.
C5_DuplicateIsReadOnly ==
    [][\A p \in Captures : \A r \in roles :
         Checks(p) /\ r.url = cap'[p].url
         => /\ cap'[p].pc = "done"
            /\ trace'[p] = <<"check-duplicate">>
            /\ files' = files /\ txn' = txn /\ writer' = writer
            /\ Store' = Store
            /\ \E c \in companies :
                 c.id = r.company_id /\ outcome'[p].company = c.name
            /\ outcome'[p].title = r.title
            /\ outcome'[p].skills_extracted =
                 Cardinality({l \in role_skills : l.role_id = r.id})]_vars

C5_Witness ==
    \E p \in Captures : \E r \in roles :
        /\ outcome[p].status = "already_exists"
        /\ outcome[p].role_id = r.id
        /\ outcome[p].skills_extracted = 2
        /\ r.status = "applied"
        /\ trace[p] = <<"check-duplicate">>


(***************************************************************************)
(* Properties of one call of scrape.                                       *)
(***************************************************************************)
ScrapeDone == scr.pc = "done"

\* the effects of one kind, in order
Calls(op) == SelectSeq(events, LAMBDA e : e.op = op)

BrowserOps == {"_scrape_with_playwright", "launch", "launch_error", "goto", "close"}

NoBrowserUse == \A i \in DOMAIN events : events[i].op \notin BrowserOps

ExtractedLength == Len(extract_text_from_html(scr.html))

\* the lightweight fetch succeeded and its text is below the threshold
Thin == scr.fetched /\ ExtractedLength < scr.min_content_chars

\* the lightweight fetch succeeded and its text reaches the threshold
Rich == scr.fetched /\ ExtractedLength >= scr.min_content_chars

\* the lightweight fetch gave up after its attempts
HttpxFailed == scr.fetch_error.kind = "ScraperError"

NamesInstallStep(msg) == msg \in {MSG_THIN_NO_PLAYWRIGHT, MSG_PLAYWRIGHT_IMPORT}

\* the browser path was called once, with the URL scrape was given, and what
\* it returned or raised is what scrape returns or raises
BrowserResultReturned ==
    /\ Calls("_scrape_with_playwright") = <<Ev("_scrape_with_playwright", 0, scr.url)>>
    /\ scr.playwright_result.kind # "none"
    /\ scr.result = scr.playwright_result

\* C6: thin-content fallback. When the lightweight fetch succeeded with text
\* shorter than min_content_chars, the browser path is never called more than
\* once, and when scrape has ended: with the browser backend available the
\* browser path was called exactly once with the original URL and scrape ends
\* with its result unchanged; without it scrape raised a ScraperError whose
\* message names the installation step and the browser path was never used.
C6_ThinContentFallback ==
    Thin =>
        /\ Len(Calls("_scrape_with_playwright")) <= 1
        /\ ScrapeDone =>
             IF scr.playwright_installed
             THEN BrowserResultReturned
             ELSE /\ scr.result.kind = "ScraperError"
                  /\ NamesInstallStep(scr.result.msg)
                  /\ NoBrowserUse

\* thin content was rendered by the browser and that document was returned
C6_Witness ==
    /\ ScrapeDone
    /\ Thin
    /\ scr.html = PAGE_GATED
    /\ scr.playwright_installed
    /\ scr.result = Returns(PAGE_RICH)
    /\ Len(Calls("launch")) = 2

\* C7 as the specification states it: when the lightweight fetch fails after
\* its retries, scrape ends with the browser path's result if the browser
\* backend is available, and otherwise raises the original fetch error (the
\* one carrying the attempt count and the last cause).
C7_AsStated ==
    (ScrapeDone /\ HttpxFailed /\ scr.fetch_error.attempts >= 1) =>
        IF scr.playwright_installed
        THEN BrowserResultReturned
        ELSE scr.result = scr.fetch_error

\* C7, amended: when the lightweight fetch fails after its retries, scrape
\* ends with the browser path's result if the browser backend is available;
\* otherwise it raises the same ScraperError as for thin content, the one
\* naming the installation step, which carries neither the attempt count nor
\* the cause of the fetch error, and it never uses the browser.
C7_FetchFailureFallback ==
    (ScrapeDone /\ HttpxFailed) =>
        IF scr.playwright_installed
        THEN BrowserResultReturned
        ELSE /\ scr.result = Raises("ScraperError", MSG_THIN_NO_PLAYWRIGHT)
             /\ scr.result # scr.fetch_error
             /\ NoBrowserUse

\* two requests failed, the second by a timeout, and no browser is installed
C7_Witness ==
    /\ ScrapeDone
    /\ HttpxFailed
    /\ ~scr.playwright_installed
    /\ scr.fetch_error.attempts = 2
    /\ scr.fetch_error.cause = "TimeoutException"
    /\ Len(Calls("http_get")) = 2

\* C8: when the lightweight fetch succeeded and the extracted text has at
\* least min_content_chars characters, browser availability is never
\* consulted, the browser path is never used, and scrape returns exactly the
\* fetched document.
C8_RichContentReturned ==
    Rich =>
        /\ Calls("playwright_available") = <<>>
        /\ NoBrowserUse
        /\ ScrapeDone => scr.result = Returns(scr.html)

\* a document whose text is exactly as long as the threshold was returned
C8_Witness ==
    /\ ScrapeDone
    /\ Rich
    /\ scr.min_content_chars > 0
    /\ ExtractedLength = scr.min_content_chars
    /\ scr.html = PAGE_TWO_LINES
    /\ scr.result = Returns(PAGE_TWO_LINES)

\* C9 as the specification states it: for every URL whose scheme is not
\* http/https or whose host is empty, scrape ends at once with ValueError,
\* before any sleep, request, availability check or browser launch.
C9_AsStated ==
    (/\ scr.pc \notin {"idle", "start"}
     /\ \/ urlparse(scr.url).scheme \notin HTTP_SCHEMES
        \/ HostOf(scr.url) = <<>>) =>
        /\ ScrapeDone
        /\ scr.result.kind = "ValueError"
        /\ events = <<>>

\* C10 as the specification states it: for every valid URL whose domain is
\* linkedin.com or www.linkedin.com, scrape ends at once with the ScraperError
\* saying the domain is not supported, without a sleep, a request or any
\* browser use.
C10_AsStated ==
    (/\ scr.pc \notin {"idle", "start"}
     /\ urlparse(scr.url).scheme \in HTTP_SCHEMES
     /\ HostOf(scr.url) \in UNSUPPORTED_DOMAINS) =>
        /\ ScrapeDone
        /\ scr.result = Raises("ScraperError", MSG_NOT_SUPPORTED)
        /\ events = <<>>


\* the requests the lightweight fetch sent
Requests == Calls("http_get")

\* C11 as the specification states it: the lightweight fetch sends at most
\* retry_attempts requests; when it gives up it has sent exactly
\* retry_attempts requests and its ScraperError carries the cause of the last
\* failure, a real failure and never an absent one, whatever retry_attempts is.
C11_AsStated ==
    /\ Len(Requests) <= scr.retry_attempts
    /\ HttpxFailed =>
         /\ Len(Requests) = scr.retry_attempts
         /\ scr.fetch_error.attempts = scr.retry_attempts
         /\ scr.fetch_error.cause # "None"

\* browsers launched and not yet closed
OpenBrowsers == Len(Calls("launch")) - Len(Calls("close"))

\* C12: a browser is open only inside the attempt that launched it: at most
\* one browser is open at any time, none is open between attempts, and none
\* is open when scrape has returned or raised.
C12_BrowserClosed ==
    /\ OpenBrowsers \in {0, 1}
    /\ scr.pc # "page" => OpenBrowsers = 0
    /\ ScrapeDone => OpenBrowsers = 0

\* the browser path gave up after a launch that failed and a page that
\* timed out, and two browsers in all were launched and closed
C12_Witness ==
    /\ ScrapeDone
    /\ scr.playwright_result.kind = "ScraperError"
    /\ Len(Calls("launch")) >= 1
    /\ Len(Calls("launch_error")) >= 1
    /\ Len(Calls("close")) = Len(Calls("launch"))

\* the required fields, as a set
RequiredFields == {required_fields[i] : i \in 1..Len(required_fields)}

\* the JSON objects that lack a required field
IncompleteObjects ==
    {d \in JSON_DOCUMENTS :
        d.value.type = "object" /\ ~(RequiredFields \subseteq d.value.members)}

\* capture p failed because the structured extract lacked a field
MissingField(p) ==
    /\ outcome[p].status = "failed"
    /\ outcome[p].stage = "extract"
    /\ outcome[p].error = "LLMError"
    /\ outcome[p].detail \in RequiredFields

\* the stages a capture has run when the structured extract is done
UpToExtract == SubSeq(Stages, 1, 4)

\* C13: for a response that is a JSON object lacking one or more of title,
\* company, required_skills, preferred_skills, bare or inside a code fence,
\* extract_job_data fails with LLMError naming a field the object lacks; and
\* the capture that ends on this error has run the stages up to the extract
\* only, had flushed nothing, and leaves the tables and the files untouched.
C13_MissingFieldStopsCapture ==
    [][/\ (\E p \in Captures : cap[p].pc = "extract" /\ cap'[p].pc # "extract")
          => \A d \in IncompleteObjects :
               \A r \in {<<d.text>>, Fenced(<<"json">>, d.text), Fenced(<<>>, d.text)} :
                  LET result == extract_job_data(r)
                  IN  /\ result.kind = "LLMError"
                      /\ result.msg = MSG_MISSING_FIELD
                      /\ result.field \in RequiredFields \ d.value.members
       /\ \A p \in Captures :
            (Ends(p) /\ MissingField(p)')
            => /\ trace'[p] = UpToExtract
               /\ txn[p] = EmptyTxn /\ txn'[p] = EmptyTxn
               /\ Store' = Store
               /\ files' = files
               /\ cap'[p].pc = "done"]_vars

\* a capture ended on a response without required_skills, and nothing was
\* stored
C13_Witness ==
    \E p \in Captures :
        /\ MissingField(p)
        /\ outcome[p].detail = "required_skills"
        /\ roles = {} /\ companies = {} /\ files = {}

\* the stages in which a capture fails before its first write
BeforeWrites == {"none", "fetch", "denoise", "extract"}

\* C16: the error responses of the capture endpoint. A request whose URL is
\* invalid and a capture that fails in the fetch are answered with 422; a
\* capture that fails in the de-noise or in the structured extract is
\* answered with 500; in both cases the capture had flushed nothing and the
\* tables and the files stay as they were.
C16_ErrorMapping ==
    [][\A p \in Captures :
         (/\ Ends(p)
          /\ cap'[p].via = "http"
          /\ outcome'[p].status \in {"failed", "rejected"}
          /\ outcome'[p].stage \in BeforeWrites)
         => /\ outcome'[p].stage \in {"none", "fetch"}
                => /\ outcome'[p].http_status = 422
                   /\ outcome'[p].error \in {"RequestValidationError", "ScraperError"}
            /\ outcome'[p].stage \in {"denoise", "extract"}
                => outcome'[p].http_status = 500
            /\ txn[p] = EmptyTxn /\ txn'[p] = EmptyTxn
            /\ Store' = Store
            /\ files' = files]_vars

\* one HTTP capture was refused for an unsupported domain with 422 and
\* another failed on the model's output with 500; nothing is stored
C16_Witness ==
    /\ \E p \in Captures :
         /\ cap[p].via = "http"
         /\ outcome[p].stage = "fetch"
         /\ outcome[p].detail = MSG_NOT_SUPPORTED
         /\ outcome[p].http_status = 422
    /\ \E p \in Captures :
         /\ cap[p].via = "http"
         /\ outcome[p].stage = "extract"
         /\ outcome[p].error = "LLMError"
         /\ outcome[p].http_status = 500
    /\ roles = {} /\ companies = {} /\ files = {}

\* extract_job_data has parsed a response of the backend
Parsed == llm.pc = "done" /\ llm.op = "extract" /\ llm.failure \in {"none", "malformed"}

\* C14 as the specification states it: whatever the backend responds,
\* extract_job_data returns a JSON object holding title, company,
\* required_skills and preferred_skills, or it fails with LLMError; it never
\* returns a string, a number or a list and never fails with another kind.
C14_AsStated ==
    Parsed =>
        \/ /\ llm.result.kind = "ok"
           /\ llm.result.data.type = "object"
           /\ \A i \in 1..Len(required_fields) :
                 required_fields[i] \in llm.result.data.members
        \/ llm.result.kind = "LLMError"

\* the responses that are malformed output: not JSON, or a field is missing
Malformed(result) ==
    result.kind # "ok" /\ result.msg \in {MSG_INVALID_JSON, MSG_MISSING_FIELD}

\* C15 as the specification states it: the kind of the error a transport
\* failure of a model call raises is not the kind of any error raised for
\* malformed output, so that a caller can tell the two apart.
C15_AsStated ==
    (llm.pc = "done" /\ llm.failure = "transport") =>
        \A r \in Responses :
            Malformed(extract_job_data(r)) =>
                extract_job_data(r).kind # llm.result.kind


\* the alias table's entry for a lower-case key, if there is one
Canonical(key) == {e[2] : e \in {a \in KNOWN_CAPITALIZATIONS : a[1] = key}}

GetCalls == {i \in 1..Len(sk.log) : sk.log[i].op = "get_or_create_skill"}

\* two names are equal ignoring case (str.lower)
SameIgnoringCase(a, b) == Lower(a) = Lower(b)

\* call i and call j name the same skill
SameSkill(i, j) ==
    SameIgnoringCase(normalize_skill_name(sk.log[i].name),
                     normalize_skill_name(sk.log[j].name))

\* C18 as the specification states it: in one transaction, two calls of
\* get_or_create_skill whose normalized names are equal ignoring case return
\* the same id; no two rows of the skill table have names equal ignoring
\* case; and the first call for a name creates the row that it returns, with
\* the normalized name and the category it was given.
C18_AsStated ==
    sk.pc = "open" =>
        /\ \A i, j \in GetCalls : SameSkill(i, j) => sk.log[i].result = sk.log[j].result
        /\ \A s, t \in sk.skills : SameIgnoringCase(s.name, t.name) => s = t
        /\ LinkCalls = {} =>
             \A i \in GetCalls :
                 (\A j \in GetCalls : j < i => ~SameSkill(i, j))
                 => \E s \in sk.skills :
                       /\ s.id = sk.log[i].result
                       /\ s.name = normalize_skill_name(sk.log[i].name)
                       /\ s.category = sk.log[i].category

\* the call made last, and whether it was a linking call
LastCall == sk.log[Len(sk.log)]
LinkJustMade == sk.log # <<>> /\ LastCall.op = "link_skills_to_role"

\* the non-blank names of a linking call with their levels, in the order of
\* the call: required first
RECURSIVE NonBlank(_, _)
NonBlank(names, level) ==
    IF names = <<>> THEN <<>>
    ELSE IF Strip(Head(names)) = <<>> THEN NonBlank(Tail(names), level)
    ELSE <<[name |-> Head(names), level |-> level]>> \o NonBlank(Tail(names), level)

Named(c) == NonBlank(c.required, "required") \o NonBlank(c.preferred, "preferred")

\* the links of a role, and the skill row a name resolves to
LinksOf(role_id) == {l \in sk.role_skills : l.role_id = role_id}
SkillOf(name) == get_or_create_skill(sk.skills, name, None).skill

\* C19 as the specification states it: link_skills_to_role returns the number
\* of non-blank names in required plus preferred and has created exactly that
\* many links for the posting, one per name, with level required for a
\* required name and preferred for a preferred name; blank names add nothing.
C19_AsStated ==
    LinkJustMade =>
        LET c == LastCall
            named == Named(c)
        IN  /\ c.error = "none"
            /\ c.result = Len(named)
            /\ Cardinality(LinksOf(c.role_id)) = Len(named)
            /\ \A i \in 1..Len(named) :
                 \E l \in LinksOf(c.role_id) :
                     /\ l.skill_id = SkillOf(named[i].name).id
                     /\ l.requirement_level = named[i].level

\* two names of the call resolve to the same skill
Repeats(named) ==
    \E i, j \in 1..Len(named) :
        /\ i < j
        /\ SameIgnoringCase(normalize_skill_name(named[i].name),
                            normalize_skill_name(named[j].name))

\* C20 as the specification states it: a linking call that names one skill
\* more than once succeeds, and the posting then has exactly one link to
\* that skill, with the level of the first name that resolved to it.
C20_AsStated ==
    (LinkJustMade /\ Repeats(Named(LastCall))) =>
        LET c == LastCall
            named == Named(c)
        IN  /\ c.error = "none"
            /\ \A i \in 1..Len(named) :
                 LET mine == {l \in LinksOf(c.role_id) :
                                 l.skill_id = SkillOf(named[i].name).id}
                     first == CHOOSE k \in 1..i :
                                 /\ SkillOf(named[k].name) = SkillOf(named[i].name)
                                 /\ \A m \in 1..(k - 1) :
                                      SkillOf(named[m].name) # SkillOf(named[i].name)
                 IN  /\ Cardinality(mine) = 1
                     /\ \A l \in mine : l.requirement_level = named[first].level

\* the RoleSkill objects the linking step of capture p adds
AddedBy(p) ==
    link_skills_to_role(Skills(p), cap[p].role_id, cap[p].job_data.required_skills,
                        cap[p].job_data.preferred_skills).added

\* the linking step of capture p adds a link for a pair that has one already
LinksTwice(p) ==
    \/ \E i, j \in 1..Len(AddedBy(p)) :
          i < j /\ AddedBy(p)[i].skill_id = AddedBy(p)[j].skill_id
    \/ \E i \in 1..Len(AddedBy(p)) : \E l \in RoleSkills(p) :
          l.role_id = cap[p].role_id /\ l.skill_id = AddedBy(p)[i].skill_id

\* C21: a linking step that adds a second link for a posting-skill pair does
\* not go through: the capture fails in that step, its transaction is
\* discarded and the committed tables stay as they were; and in every
\* committed state a posting-skill pair has at most one link.
C21_UniqueLinks ==
    [][/\ \A l1, l2 \in role_skills' :
            (l1.role_id = l2.role_id /\ l1.skill_id = l2.skill_id) => l1 = l2
       /\ \A p \in Captures :
            (cap[p].pc = "link-skills" /\ cap'[p].pc # "link-skills" /\ LinksTwice(p))
            => /\ outcome'[p].status = "failed"
               /\ outcome'[p].stage = "link-skills"
               /\ outcome'[p].error \in {"IntegrityError", "OperationalError"}
               /\ txn'[p] = EmptyTxn
               /\ Store' = Store]_vars

\* a capture whose extract named one skill twice failed on the constraint
\* while the other capture committed its links
C21_Witness ==
    /\ \E p \in Captures : FailedUnique(p, "link-skills")
    /\ \E p \in Captures : outcome[p].status = "success" /\ outcome[p].skills_extracted > 0
    /\ role_skills # {}

\* capture p takes its insert step for an employer whose derived slug the
\* lookup found taken, an employer that matches no existing name
InsertsCollidingEmployer(p) ==
    LET name == company_name(cap[p].job_data)
    IN  /\ cap[p].pc = "insert-employer"
        /\ cap'[p].pc # "insert-employer"
        /\ cap[p].slug # create_slug(name)
        /\ \E c \in Companies(p) : c.slug = create_slug(name)
        /\ \A c \in Companies(p) : ~SameIgnoringCase(c.name, name)

\* C22 as the specification states it: a capture that introduces a new
\* employer whose derived slug is the slug of an existing employer does not
\* fail on it: its insert adds a row with the new name and a slug that
\* extends the derived slug and differs from every existing slug, and the
\* existing employers stay as they are.
C22_AsStated ==
    [][\A p \in Captures :
         InsertsCollidingEmployer(p)
         => \/ /\ outcome'[p].status = "failed"
               /\ outcome'[p].error = "OperationalError"
            \/ /\ outcome'[p].status = "none"
               /\ companies' = companies
               /\ \E c \in txn'[p].companies :
                    /\ c.name = company_name(cap[p].job_data)
                    /\ IsPrefix(create_slug(c.name) \o <<"-">>, c.slug)
                    /\ \A e \in Companies(p) : e.slug # c.slug /\ e.id # c.id]_vars

\* capture p takes its employer lookup while an employer it can see has the
\* extracted name, ignoring case
LooksUpKnownEmployer(p) ==
    /\ cap[p].pc = "upsert-employer"
    /\ cap'[p].pc # "upsert-employer"
    /\ \E c \in Companies(p) : SameIgnoringCase(c.name, company_name(cap[p].job_data))

\* C23 as the specification states it: when the extracted company name
\* equals the name of an existing employer ignoring case, the capture goes
\* on with that employer: it takes no insert step, the employer rows stay
\* as they are, and the posting is created under the employer of that name.
C23_AsStated ==
    [][\A p \in Captures :
         LooksUpKnownEmployer(p)
         => /\ cap'[p].pc = "create-posting"
            /\ cap'[p].company \in Companies(p)
            /\ SameIgnoringCase(cap'[p].company.name, company_name(cap[p].job_data))
            /\ companies' = companies
            /\ txn' = txn]_vars

\* an extracted value that is null, empty or only whitespace
Blank(x) == x = None \/ Strip(x) = <<>>

\* what the specification says is persisted for an extracted value
Persisted(x, default) == IF Blank(x) THEN default ELSE Strip(x)

HasDerivedPaths(r, slug) ==
    \/ /\ r.raw_html_path = RawPath(slug, r.id)
       /\ r.cleaned_md_path = CleanedPath(slug, r.id)
    \/ /\ r.raw_html_path = resolve_path(RawPath(slug, r.id))
       /\ r.cleaned_md_path = resolve_path(CleanedPath(slug, r.id))

FileAt(path) == \E f \in files : f.path = path

\* C25: a posting carries the placeholder paths only in an open transaction,
\* between its insert and the artifact step; every committed posting has
\* the two paths derived from its employer's slug and its id, never the
\* placeholder, and both files exist at those paths; and the Markdown of a
\* posting is on disk only if its raw HTML is.
C25_TwoPhase ==
    /\ \A r \in roles :
          /\ r.raw_html_path # PENDING
          /\ r.cleaned_md_path # PENDING
          /\ \E c \in companies :
                /\ c.id = r.company_id
                /\ HasDerivedPaths(r, c.slug)
                /\ FileAt(resolve_path(RawPath(c.slug, r.id)))
                /\ FileAt(resolve_path(CleanedPath(c.slug, r.id)))
    /\ \A p \in Captures : \A r \in txn[p].roles :
          (r.raw_html_path = PENDING \/ r.cleaned_md_path = PENDING)
          => /\ cap[p].pc = "persist-artifacts"
             /\ r.raw_html_path = PENDING
             /\ r.cleaned_md_path = PENDING
    /\ \A p \in Captures : \A r \in txn[p].roles :
          FileAt(resolve_path(CleanedPath(cap[p].company.slug, r.id)))
          => FileAt(resolve_path(RawPath(cap[p].company.slug, r.id)))

\* one capture has committed its posting with both files on disk while the
\* other holds a posting with the placeholder paths in its transaction
C25_Witness ==
    \E p, q \in Captures :
       /\ outcome[p].status = "success"
       /\ \E r \in roles : r.id = outcome[p].role_id /\ r.raw_html_path # PENDING
       /\ \E r \in txn[q].roles : r.raw_html_path = PENDING

\* the committed tables
Committed == [companies |-> companies, roles |-> roles, skills |-> skills,
              role_skills |-> role_skills, files |-> files]

\* the commit of capture p leaves the rows that the HTTP handler leaves when
\* it captures the same URL with the same extract on the same store
CommitsAsHandler(p) ==
    \E t \in 0..MaxTime :
       LET handler == CaptureInto(Committed, cap[p].url, cap[p].job_data, t)
       IN  /\ companies' = handler.companies
           /\ roles' = handler.roles
           /\ skills' = handler.skills
           /\ role_skills' = handler.role_skills

\* C26 as the specification states it: the command-line capture and the
\* HTTP capture are equivalent. A capture that succeeds, by either entry
\* point, commits the rows the HTTP handler commits (the stored artifact
\* paths among them); and for a URL that is no http(s) URL with a host,
\* where the store plays no part, two finished captures of that URL have run
\* the same stages and report the same error.
C26_AsStated ==
    [][/\ \A p \in Captures :
            (outcome[p].status = "none" /\ outcome'[p].status = "success")
            => CommitsAsHandler(p)
       /\ \A p, q \in Captures :
            (/\ cap'[p].pc = "done" /\ cap'[q].pc = "done"
             /\ cap'[p].url = cap'[q].url
             /\ ~HttpUrl(cap'[p].url))
            => /\ trace'[p] = trace'[q]
               /\ outcome'[p].error = outcome'[q].error]_vars

\* text t occurs in text s
Contains(s, t) ==
    \E i \in 0..(Len(s) - Len(t)) : SubSeq(s, i + 1, i + Len(t)) = t

\* the currency a posting's range is given in
CurrencyOf(role) == OrDefault(role.salary_currency, USD)

\* C27 as the specification states it: the range string is absent exactly
\* when both salary_min and salary_max are absent; with both present it
\* contains both bounds and the currency; with only the minimum it is the
\* minimum followed by "+"; with only the maximum it starts with "Up to";
\* and "$" appears only when the currency is USD.
C27_AsStated ==
    view.pc = "done" =>
       LET role == view.role
           range == view.salary_range
       IN  /\ (range = None) <=> (role.salary_min = NoSalary /\ role.salary_max = NoSalary)
           /\ (role.salary_min # NoSalary /\ role.salary_max # NoSalary)
              => /\ Contains(range, Thousands(role.salary_min))
                 /\ Contains(range, Thousands(role.salary_max))
                 /\ Contains(range, CurrencyOf(role))
           /\ (role.salary_min # NoSalary /\ role.salary_max = NoSalary)
              => Contains(range, Thousands(role.salary_min) \o <<"+">>)
           /\ (role.salary_min = NoSalary /\ role.salary_max # NoSalary)
              => /\ IsPrefix(<<"U","p"," ","t","o"," ">>, range)
                 /\ Contains(range, Thousands(role.salary_max))
           /\ (range # None /\ Contains(range, <<"$">>)) => CurrencyOf(role) = USD

\* the step is a status update
IsStatusUpdate == updates' = updates + 1

\* C28: every posting's status is one of active, applied, rejected and
\* archived; a posting that a capture adds has status active; no step
\* removes a posting, and an existing posting changes only in a status
\* update; a status update for an existing posting sets the status of that
\* posting to the requested value and changes no other field and no other
\* row; a status update for an unknown id answers not-found and changes
\* nothing.
C28_Status ==
    [][/\ \A r \in roles \cup roles' : r.status \in Statuses
       /\ \A r \in roles' : (\A q \in roles : q.id # r.id) => r.status = "active"
       /\ \A r \in roles : \E q \in roles' : q.id = r.id
       /\ \A r \in roles : r \notin roles' => IsStatusUpdate
       /\ IsStatusUpdate
          => /\ UNCHANGED <<companies, skills, role_skills, files, txn, outcome>>
             /\ view'.pc = "status"
             /\ IF view'.status \in Statuses
                   /\ \E role \in roles : role.id = view'.role_id
                THEN /\ view'.http_status = 200
                     /\ \E role \in roles :
                          /\ role.id = view'.role_id
                          /\ roles' = (roles \ {role})
                                       \cup {[role EXCEPT !.status = view'.status]}
                ELSE /\ roles' = roles
                     /\ view'.status \in Statuses => view'.http_status = 404]_vars

\* after a capture has committed its posting, a status update has moved a
\* posting to the requested status
C28_Witness ==
    /\ outcome[1].status = "success"
    /\ view.pc = "status"
    /\ view.http_status = 200
    /\ view.status = "archived"
    /\ \E r \in roles : r.id = view.role_id /\ r.status = "archived"
    /\ \E r \in roles : r.id = outcome[1].role_id /\ r.status = "active"

ReadJustMade == sk.log # <<>> /\ LastCall.op = "get_skills_for_role"

\* the links of a role with a level whose skill has a name
LinksNamed(role_id, level, name) ==
    {l \in LinksOf(role_id) :
        /\ l.requirement_level = level
        /\ \E s \in sk.skills : s.id = l.skill_id /\ s.name = name}

\* a returned list holds names of links of its level, in the order in
\* which the links were created
InCreationOrder(role_id, level, names) ==
    /\ \A i \in 1..Len(names) : LinksNamed(role_id, level, names[i]) # {}
    /\ \A i, j \in 1..Len(names) :
          i < j => \E a \in LinksNamed(role_id, level, names[i]) :
                     \E b \in LinksNamed(role_id, level, names[j]) : a.id < b.id

IsRequest(i) == events[i].op \in {"http_get", "goto"}

\* C30 as the specification states it: every outbound request of a scrape
\* comes after a sleep of at least rate_limit_delay_seconds that lies
\* between it and the previous request (or the start of scrape), whenever
\* the configured delay is positive.
C30_AsStated ==
    \A i \in 1..Len(events) :
       (IsRequest(i) /\ scr.rate_limit_delay_seconds > 0)
       => \E j \in 1..(i - 1) :
             /\ events[j].op = "sleep"
             /\ events[j].secs >= scr.rate_limit_delay_seconds
             /\ \A k \in (j + 1)..(i - 1) : ~IsRequest(k)

\* the step is a failed attempt of the lightweight fetch
HttpxAttemptFails == scr.pc = "httpx" /\ scr'.attempt = scr.attempt + 1

\* the effects the step adds
NewEvents == SubSeq(events', Len(events) + 1, Len(events'))

\* C31 as the specification states it: a failed attempt k of the lightweight
\* fetch that is followed by another attempt is followed by one sleep, of
\* rate_limit_delay_seconds * 2^k after a 429 response and of
\* rate_limit_delay_seconds after any other failure; the final attempt is
\* followed by no sleep (for a positive configured delay).
C31_AsStated ==
    [][(HttpxAttemptFails /\ scr.rate_limit_delay_seconds > 0)
       => IF scr.attempt + 1 < scr.retry_attempts
          THEN NewEvents =
                 <<Ev("http_get", 0, scr.url),
                   Sleep(IF scr'.last_error = "HTTPStatusError 429"
                         THEN scr.rate_limit_delay_seconds * (2 ^ scr.attempt)
                         ELSE scr.rate_limit_delay_seconds)>>
          ELSE NewEvents = <<Ev("http_get", 0, scr.url)>>]_vars

\* the step ends an attempt of the browser fetch
BrowserAttemptEnds == scr.pc \in {"playwright", "page"} /\ scr'.pc # "page"
                      /\ scr.attempt < scr.retry_attempts

\* the sleep the lightweight fetch makes after a failure of attempt k that
\* is followed by another attempt
BackoffOfHttpx(rate_limited, delay, k) ==
    IF rate_limited THEN delay * (2 ^ k) ELSE delay

\* C32 as the specification states it: the browser fetch follows the attempt
\* and backoff policy of the lightweight fetch. It makes at most
\* retry_attempts attempts; an attempt that meets a rate-limit response
\* (status 429) or a transient error counts as failed, and when another
\* attempt follows, the fetch sleeps first: rate_limit_delay_seconds * 2^k
\* after the rate-limit response, rate_limit_delay_seconds after the
\* transient error; and once the attempts are used up it raises a
\* ScraperError that carries the last cause.
C32_AsStated ==
    [][/\ scr'.attempt <= scr'.retry_attempts
       /\ BrowserAttemptEnds
          => LET rate_limited == scr'.goto_status = 429
                 failed == rate_limited \/ scr'.attempt = scr.attempt + 1
             IN  failed
                 => /\ scr'.attempt = scr.attempt + 1
                    /\ scr'.pc = "playwright"
                    /\ scr.attempt + 1 < scr.retry_attempts
                       => NewEvents[Len(NewEvents)] =
                            Sleep(BackoffOfHttpx(rate_limited,
                                                 scr.rate_limit_delay_seconds,
                                                 scr.attempt))
       /\ (scr.pc = "playwright" /\ scr'.pc = "done")
          => scr'.result = RaisesAfter(MSG_PLAYWRIGHT_FAILED, scr.retry_attempts,
                                       scr.last_error)]_vars

(***************************************************************************)
(* C33                                                                     *)
(***************************************************************************)
\* complete has run for the configured provider
CompleteEnds == llm.pc = "complete" /\ llm'.pc # "complete"

\* C33 as the specification states it: for every provider the configuration
\* accepts (openai, anthropic, ollama, openrouter), complete dispatches to
\* the backend call of that provider: it returns the response text or fails
\* with LLMError, and the unsupported-provider error is raised only for a
\* value outside that set.
C33_AsStated ==
    [][(CompleteEnds /\ llm.provider \in Providers)
       => /\ llm'.failure # "configuration"
          /\ llm'.result.kind \in {"none", "ok", "LLMError"}]_vars

(***************************************************************************)
(* C34                                                                     *)
(***************************************************************************)
\* capture p misses the employer lookup and chooses the slug of the new row
ChoosesSlug(p) == cap[p].pc = "resolve-slug" /\ cap'[p].pc = "insert-employer"

\* C34 as the specification states it: the slug that the employer upsert
\* chooses for a new employer is never a slug that an employer already
\* holds, also when several captures of one clock second derive the same
\* slug; and the slugs of the committed employers are pairwise distinct.
C34_AsStated ==
    [][/\ \A p \in Captures :
            ChoosesSlug(p) => \A c \in Companies(p) : c.slug # cap'[p].slug
       /\ \A c, d \in companies' : c.slug = d.slug => c = d]_vars

(***************************************************************************)
(* C35, C36                                                                *)
(***************************************************************************)
\* C35 as the specification states it: after any interleaving of concurrent
\* captures, also of captures that run in different processes, no two
\* committed skills have names that are equal ignoring case.
C35_AsStated ==
    \A s, t \in skills : SameIgnoringCase(s.name, t.name) => s = t

\* C36 as the specification states it: after any interleaving of concurrent
\* captures, also of captures that run in different processes, no two
\* committed employers have names that are equal ignoring case.
C36_AsStated ==
    \A c, d \in companies : SameIgnoringCase(c.name, d.name) => c = d

(***************************************************************************)
(* C37                                                                     *)
(***************************************************************************)
\* the step is a call of get_or_create_skill
GetOrCreateJustMade ==
    /\ Len(sk'.log) = Len(sk.log) + 1
    /\ sk'.log[Len(sk'.log)].op = "get_or_create_skill"

\* C37 as the specification states it: get_or_create_skill(name) returns an
\* existing skill only if the stored name of that skill equals
\* normalize_skill_name(name) ignoring case, an exact match also for names
\* that contain % or _; otherwise it creates a new skill whose name is
\* exactly normalize_skill_name(name), and returns it.
C37_AsStated ==
    [][GetOrCreateJustMade
       => LET call == sk'.log[Len(sk'.log)]
              normalized_name == normalize_skill_name(call.name)
              returned == {s \in sk.skills : s.id = call.result}
          IN  IF returned # {}
              THEN /\ \A s \in returned : SameIgnoringCase(s.name, normalized_name)
                   /\ sk'.skills = sk.skills
              ELSE \E s \in sk'.skills \ sk.skills :
                      /\ s.id = call.result
                      /\ s.name = normalized_name
                      /\ sk'.skills = sk.skills \cup {s}]_vars

(***************************************************************************)
(* C38                                                                     *)
(***************************************************************************)
\* the positions of the events of the given kinds
EventsOf(ops) == {i \in 1..Len(events) : events[i].op \in ops}

\* the longest sleep the configuration allows: the doubled delay after the
\* last rate-limit response
LongestSleep ==
    IF scr.retry_attempts = 0 THEN scr.rate_limit_delay_seconds
    ELSE scr.rate_limit_delay_seconds * (2 ^ (scr.retry_attempts - 1))

\* the lightweight path has been attempted: it returned or raised
HttpxAttempted == scr.fetched \/ scr.fetch_error # NoResult

\* C38: every scrape call terminates, returning a document or raising. On
\* the way it makes at most retry_attempts lightweight attempts and then at
\* most retry_attempts browser attempts, and a bounded number of sleeps
\* (one at the start, at most one after each attempt), each at most the
\* doubled delay of the last attempt; and the browser path is entered only
\* after the lightweight path has been attempted.
C38_Terminates ==
    /\ [](/\ Cardinality(EventsOf({"http_get"})) <= scr.retry_attempts
          /\ Cardinality(EventsOf({"launch", "launch_error"})) <= scr.retry_attempts
          /\ Cardinality(EventsOf({"sleep"})) <= 1 + 2 * scr.retry_attempts
          /\ \A i \in EventsOf({"sleep"}) : events[i].secs <= LongestSleep
          /\ \A i \in EventsOf({"http_get"}) :
                \A j \in EventsOf({"playwright_available", "_scrape_with_playwright",
                                   "launch", "launch_error", "goto"}) : i < j
          /\ EventsOf({"playwright_available"}) # {} => HttpxAttempted)
    /\ <>(scr.pc = "done" /\ scr.result.kind # "none")

\* both paths used up all their attempts, with sleeps between them, and the
\* call has raised
C38_Witness ==
    /\ scr.pc = "done"
    /\ scr.result.kind = "ScraperError"
    /\ scr.retry_attempts = MaxRetry
    /\ scr.rate_limit_delay_seconds > 0
    /\ Cardinality(EventsOf({"http_get"})) = MaxRetry
    /\ Cardinality(EventsOf({"launch", "launch_error"})) = MaxRetry
    /\ Cardinality(EventsOf({"sleep"})) > MaxRetry

(***************************************************************************)
(* C39                                                                     *)
(***************************************************************************)
\* each posting references an existing employer, each link an existing
\* posting and an existing skill
ReferentialIntegrity ==
    /\ \A r \in roles : \E c \in companies : c.id = r.company_id
    /\ \A l \in role_skills :
         /\ \E r \in roles : r.id = l.role_id
         /\ \E s \in skills : s.id = l.skill_id

\* capture p commits in this step
CaptureCommits(p) == outcome[p].status # "success" /\ outcome'[p].status = "success"

\* the rows of a table stay as they are, and the new rows have new ids
OnlyGrows(before, after) ==
    /\ before \subseteq after
    /\ \A n \in after \ before : \A o \in before : o.id # n.id

\* C39: in every committed state each posting references an existing
\* employer and each posting-skill link references an existing posting and
\* an existing skill; and a successful capture adds exactly one posting and
\* at most one employer, and leaves every employer, skill (name and
\* category) and link that existed before as it was.
C39_IntegrityAndGrowth ==
    /\ []ReferentialIntegrity
    /\ [][\A p \in Captures :
            CaptureCommits(p)
            => /\ OnlyGrows(roles, roles')
               /\ \E r \in roles' : roles' \ roles = {r} /\ r.id = outcome'[p].role_id
               /\ OnlyGrows(companies, companies')
               /\ Cardinality(companies' \ companies) <= 1
               /\ OnlyGrows(skills, skills')
               /\ OnlyGrows(role_skills, role_skills')]_vars

\* two captures have committed: the second found the employer and a skill
\* of the first and linked its own posting to them
C39_Witness ==
    /\ \A p \in Captures : outcome[p].status = "success"
    /\ Cardinality(roles) = 2
    /\ Cardinality(companies) = 1
    /\ \E s \in skills :
         \A r \in roles : \E l \in role_skills : l.role_id = r.id /\ l.skill_id = s.id

(***************************************************************************)
(* C40                                                                     *)
(***************************************************************************)
\* C40: normalize_skill_name is idempotent: applied to its own result it
\* returns that result; and every canonical form of the alias table is
\* normalized to itself.
C40_Idempotent ==
    /\ sk.pc = "normalized-again" => sk.again = sk.normalized
    /\ (sk.pc \in {"normalized", "normalized-again"} /\ sk.name \in CanonicalForms)
         => sk.normalized = sk.name

\* a padded alias was normalized to a canonical form that differs from it,
\* and the second call has returned
C40_Witness ==
    /\ sk.pc = "normalized-again"
    /\ sk.name = <<" ">> \o NAME_GOLANG \o <<"\n">>
    /\ sk.normalized = NAME_GO_CAPITAL
    /\ sk.again = NAME_GO_CAPITAL

====
